---- MODULE Spec2Model ----
(***************************************************************************)
(* A model of freesasa-rs: the wrappers around the native result tree      *)
(* (SasaTreeNative), the conversion of a native tree into an owned graph   *)
(* (SasaTree::from_ptr) and the comparison of two owned trees              *)
(* (SasaTree::compare_residues).                                           *)
(*                                                                         *)
(* The module holds several specifications over one set of variables:      *)
(*   SpecJoin   wrappers around native roots: new, from_result, join, drop *)
(*   SpecBuild  SasaTree::from_ptr over a family of native trees           *)
(*   SpecStop   Structure::calculate_sasa_tree down to a stop kind         *)
(*   SpecCmp    compare_residues / get_nodes over pairs of owned trees     *)
(*   SpecFn     the parsing and identity functions, each applied on its own *)
(*   SpecNode   the public operations of a Node: set_area, take_uid        *)
(*   SpecWalk   the traversals of a native tree, step by step, with the    *)
(*              fairness of a running thread                               *)
(* Each specification leaves the variables of the others untouched.        *)
(***************************************************************************)
EXTENDS Integers, Sequences, FiniteSets, TLC

VARIABLES
    roots,      \* native root id -> [st, frees, owner]: the engine's heap
    wrappers,   \* wrapper slot -> [st, root]: the SasaTreeNative values
    ret,        \* what the last wrapper operation returned
    nat,        \* the native tree handed to SasaTree::from_ptr
    bst,        \* from_ptr: "ready", "built" or "panicked"
    graph,      \* the graph of the SasaTree from_ptr returned
    natFrees,   \* calls of freesasa_node_free on the root of nat
    depth,      \* the stop kind given to calculate_sasa_tree, if any
    treeA,      \* an owned tree (the graph of a SasaTree)
    treeB,      \* another owned tree
    cmpOut,     \* what the last read operation on the owned trees returned
    arg,        \* the argument of a function that is applied on its own
    out,        \* what that function returned
    heldNode    \* a Node in the hands of a caller

joinVars == <<roots, wrappers, ret>>
buildVars == <<nat, bst, graph, natFrees, depth>>
cmpVars == <<treeA, treeB, cmpOut>>
fnVars == <<arg, out, heldNode>>

vars == <<roots, wrappers, ret, nat, bst, graph, natFrees, depth, treeA, treeB,
          cmpOut, arg, out, heldNode>>

(***************************************************************************)
(* Values.  Option<T> is a sequence: <<>> is None, <<x>> is Some(x).  A C  *)
(* string is a sequence of characters, a pointer to one an Option of it.   *)
(* A Result that may be a panic is [ok, val].                              *)
(***************************************************************************)
None == <<>>
Some(x) == <<x>>
IsSome(o) == Len(o) = 1
Unwrap(o) == o[1]

Ok(v) == [ok |-> TRUE, val |-> v]
Panic == [ok |-> FALSE, val |-> <<>>]

\* The range of i32 (the type of resnum).
I32_MAX == 2147483647
I32_MIN == (0 - I32_MAX) - 1

Digits == {"0", "1", "2", "3", "4", "5", "6", "7", "8", "9"}

DigitVal(c) ==
    CASE c = "0" -> 0 [] c = "1" -> 1 [] c = "2" -> 2 [] c = "3" -> 3
      [] c = "4" -> 4 [] c = "5" -> 5 [] c = "6" -> 6 [] c = "7" -> 7
      [] c = "8" -> 8 [] c = "9" -> 9

Whitespace == {" ", "\t"}

\* char::is_numeric, on the characters of the model (ASCII).
IsNumeric(c) == c \in Digits

\* str::trim.
RECURSIVE TrimStart(_)
TrimStart(s) ==
    IF Len(s) > 0 /\ s[1] \in Whitespace THEN TrimStart(Tail(s)) ELSE s

RECURSIVE TrimEnd(_)
TrimEnd(s) ==
    IF Len(s) > 0 /\ s[Len(s)] \in Whitespace
    THEN TrimEnd(SubSeq(s, 1, Len(s) - 1)) ELSE s

Trim(s) == TrimEnd(TrimStart(s))

\* The digits of s folded into acc, as i32::from_str does with checked
\* arithmetic: towards the positive numbers, or (neg) towards the negative.
RECURSIVE FoldDigits(_, _, _)
FoldDigits(s, acc, neg) ==
    IF Len(s) = 0 THEN [ok |-> TRUE, val |-> acc]
    ELSE LET d == DigitVal(Head(s))
             lim == I32_MAX \div 10
             over == IF neg
                     THEN acc < 0 - lim \/ (acc = 0 - lim /\ d > (I32_MAX % 10) + 1)
                     ELSE acc > lim \/ (acc = lim /\ d > I32_MAX % 10) IN
         IF over THEN [ok |-> FALSE, val |-> 0]
         ELSE FoldDigits(Tail(s), IF neg THEN 10 * acc - d ELSE 10 * acc + d, neg)

\* str::parse::<i32>: an optional sign, then one or more ASCII digits, the
\* value in the range of i32.  [ok, val].
ParseI32(s) ==
    IF Len(s) = 0 THEN [ok |-> FALSE, val |-> 0]
    ELSE LET signed == s[1] \in {"-", "+"}
             body == IF signed THEN Tail(s) ELSE s IN
         IF Len(body) = 0 \/ \E i \in 1..Len(body) : body[i] \notin Digits
         THEN [ok |-> FALSE, val |-> 0]
         ELSE FoldDigits(body, 0, s[1] = "-")

(***************************************************************************)
(* NodeArea: the six areas of a node, with the pointwise + and -.          *)
(* Areas are integers (multiples of the engine's resolution).              *)
(***************************************************************************)
NodeArea(t, mc, sc, po, ap, un) ==
    [total |-> t, main_chain |-> mc, side_chain |-> sc,
     polar |-> po, apolar |-> ap, unknown |-> un]

\* impl Sub for NodeArea
AreaSub(a, b) ==
    NodeArea(a.total - b.total, a.main_chain - b.main_chain,
             a.side_chain - b.side_chain, a.polar - b.polar,
             a.apolar - b.apolar, a.unknown - b.unknown)

\* impl Add for NodeArea
AreaAdd(a, b) ==
    NodeArea(a.total + b.total, a.main_chain + b.main_chain,
             a.side_chain + b.side_chain, a.polar + b.polar,
             a.apolar + b.apolar, a.unknown + b.unknown)

(***************************************************************************)
(* NodeUID.  kind is the variant; the fields are those of the identity:    *)
(* structure (model number), chain, res_id = (resnum, inscode), atom_name; *)
(* a Structure UID holds the structure's name instead.                     *)
(***************************************************************************)
StructureUID(name) ==
    [kind |-> "Structure", name |-> Some(name), structure |-> None,
     chain |-> None, res_id |-> None, atom_name |-> None]

ChainUID(structure, id) ==
    [kind |-> "Chain", name |-> None, structure |-> Some(structure),
     chain |-> Some(id), res_id |-> None, atom_name |-> None]

ResidueUID(structure, id, resnum, inscode) ==
    [kind |-> "Residue", name |-> None, structure |-> Some(structure),
     chain |-> Some(id), res_id |-> Some(<<resnum, inscode>>),
     atom_name |-> None]

AtomUID(structure, id, resnum, inscode, name) ==
    [kind |-> "Atom", name |-> None, structure |-> Some(structure),
     chain |-> Some(id), res_id |-> Some(<<resnum, inscode>>),
     atom_name |-> Some(name)]

\* PartialEq / Eq (and Hash) are derived: two UIDs are equal when every
\* field is, the insertion code included.
UidEq_NoInscode(u, v) ==
    /\ u.kind = v.kind /\ u.name = v.name /\ u.structure = v.structure
    /\ u.chain = v.chain /\ u.atom_name = v.atom_name
    /\ IsSome(u.res_id) = IsSome(v.res_id)
    /\ IsSome(u.res_id) => Unwrap(u.res_id)[1] = Unwrap(v.res_id)[1]

UidEq(u, v) ==
    /\ u.kind = v.kind /\ u.name = v.name /\ u.structure = v.structure
    /\ u.chain = v.chain /\ u.res_id = v.res_id /\ u.atom_name = v.atom_name

(***************************************************************************)
(* Native pointers.  A null pointer is 0, every other pointer a positive   *)
(* number.                                                                 *)
(***************************************************************************)
NULL == 0

\* petgraph::Graph::new(): no node, no edge.  Nodes are indexed from 1 in the
\* order add_node was called (petgraph counts from 0), edges are kept in the
\* order add_edge was called.
EmptyGraph == [nodes |-> <<>>, edges |-> <<>>]

\* The variables of a part of the program that a specification does not run.
IdleJoin == roots = <<>> /\ wrappers = <<>> /\ ret = <<>>
IdleBuild ==
    /\ nat = <<>>
    /\ bst = "idle"
    /\ graph = EmptyGraph
    /\ natFrees = 0
    /\ depth = <<>>
IdleCmp == treeA = EmptyGraph /\ treeB = EmptyGraph /\ cmpOut = <<>>
IdleFn == arg = <<>> /\ out = <<>> /\ heldNode = <<>>

\* Bounds of the wrapper model.
MaxRoots == 3
MaxWrappers == 3

RootIds == 1..MaxRoots
WrapIds == 1..MaxWrappers

\* freesasa_error_codes of the bindings, as join compares them.
FREESASA_SUCCESS == 0
FREESASA_FAIL == -1
FREESASA_WARN == -2

\* The status codes freesasa_tree_join may hand back (any i32; a small range).
StatusCodes == -3..1

(***************************************************************************)
(* The engine's heap.  st: "unalloc" (never handed out), "live", "freed";  *)
(* frees: how many times freesasa_node_free was called on the root;        *)
(* owner: 0 while the root owns itself, else the root that absorbed it in  *)
(* a join.                                                                 *)
(***************************************************************************)
FreshRoot == IF \E r \in RootIds : roots[r].st = "unalloc"
             THEN CHOOSE r \in RootIds :
                    /\ roots[r].st = "unalloc"
                    /\ \A q \in RootIds : roots[q].st = "unalloc" => r <= q
             ELSE NULL

FreeSlot == IF \E w \in WrapIds : wrappers[w].st = "none"
            THEN CHOOSE w \in WrapIds :
                    /\ wrappers[w].st = "none"
                    /\ \A v \in WrapIds : wrappers[v].st = "none" => w <= v
            ELSE 0

\* The engine hands out root r.
Alloc(hp, r) == [hp EXCEPT ![r].st = "live"]

\* freesasa_node_free(root): the call is counted even on a pointer the
\* engine no longer owns, which is what a double free is.
NodeFree(hp, r) == [hp EXCEPT ![r].st = "freed", ![r].frees = @ + 1]

\* freesasa_tree_join(primary, &donor) of the engine: on success or warning
\* the donor's subtrees belong to the primary; on a failure code the donor
\* is left as it was.
NativeTreeJoin(hp, primary, donor, code) ==
    IF code \in {FREESASA_SUCCESS, FREESASA_WARN}
    THEN [hp EXCEPT ![donor].owner = primary]
    ELSE hp

(***************************************************************************)
(* SasaTreeNative                                                          *)
(***************************************************************************)

\* SasaTreeNative::new: Err on a null root, else a wrapper around it.
NewResult(root) == IF root = NULL THEN "Err" ELSE "Ok"

\* SasaResult::new without the null check.
SasaResult_new_Unchecked(ptr, is_aligned, nightly_features) ==
    IF nightly_features /\ ~is_aligned THEN "Err" ELSE "Ok"

\* SasaResult::new: Err on a null pointer and, with the nightly features,
\* on a misaligned one; else the wrapper around ptr.
SasaResult_new(ptr, is_aligned, nightly_features) ==
    IF ptr = NULL THEN "Err"
    ELSE IF nightly_features /\ ~is_aligned THEN "Err"
    ELSE "Ok"

\* The pointers given to SasaResult::new: null, or a result of the engine.
ResultPtrs == {NULL, 1}

\* Drop for SasaTreeNative: nothing for a null root, else freesasa_node_free.
DropFree(hp, root) == IF root = NULL THEN hp ELSE NodeFree(hp, root)

\* join, line 511: the donor's root after the native call.
JoinDonorRoot(root) == NULL

\* join, lines 513-520: the result for a native status code.
JoinResult_WarnIsErr(code) ==
    IF code = FREESASA_SUCCESS THEN "Ok" ELSE "Err"

JoinResult(code) ==
    IF code = FREESASA_SUCCESS THEN "Ok"
    ELSE IF code = FREESASA_WARN THEN "Ok"
    ELSE "Err"

NoRet == [op |-> "none", result |-> "none", code |-> 0,
          primary |-> NULL, donor |-> NULL, given |-> NULL]

InitJoin ==
    /\ roots = [r \in RootIds |-> [st |-> "unalloc", frees |-> 0, owner |-> 0]]
    /\ wrappers = [w \in WrapIds |-> [st |-> "none", root |-> NULL]]
    /\ ret = NoRet
    /\ IdleBuild
    /\ IdleCmp
    /\ IdleFn

\* SasaTreeNative::new(root) on a pointer the engine just handed out (or null).
New(isNull) ==
    /\ FreeSlot # 0
    /\ LET root == IF isNull THEN NULL ELSE FreshRoot IN
       /\ ~isNull => FreshRoot # NULL
       /\ ret' = [NoRet EXCEPT !.op = "new", !.result = NewResult(root),
                               !.given = root]
       /\ IF NewResult(root) = "Ok"
          THEN /\ roots' = Alloc(roots, root)
               /\ wrappers' = [wrappers EXCEPT ![FreeSlot] =
                                  [st |-> "alive", root |-> root]]
          ELSE UNCHANGED <<roots, wrappers>>
    /\ UNCHANGED <<buildVars, cmpVars, fnVars>>

\* SasaResult::new(ptr)
NewSasaResult(ptr, is_aligned, nightly_features) ==
    /\ ret' = [NoRet EXCEPT
                 !.op = "result_new",
                 !.result = SasaResult_new(ptr, is_aligned, nightly_features),
                 !.given = ptr]
    /\ UNCHANGED <<roots, wrappers, buildVars, cmpVars, fnVars>>

\* SasaTreeNative::from_result: the null checks, freesasa_tree_init, the
\* check of its root.
FromResultOutcome(structureNull, resultNull, initRoot) ==
    IF structureNull THEN "Err"
    ELSE IF resultNull THEN "Err"
    ELSE IF initRoot = NULL THEN "Err"
    ELSE "Ok"

FromResult(structureNull, resultNull, initNull) ==
    /\ FreeSlot # 0
    /\ (~structureNull /\ ~resultNull /\ ~initNull) => FreshRoot # NULL
    /\ LET called == ~structureNull /\ ~resultNull
           initRoot == IF called /\ ~initNull THEN FreshRoot ELSE NULL
           res == FromResultOutcome(structureNull, resultNull, initRoot) IN
       /\ ret' = [NoRet EXCEPT !.op = "from_result", !.result = res]
       /\ IF res = "Ok"
          THEN /\ roots' = Alloc(roots, initRoot)
               /\ wrappers' = [wrappers EXCEPT ![FreeSlot] =
                                  [st |-> "alive", root |-> initRoot]]
          ELSE UNCHANGED <<roots, wrappers>>
    /\ UNCHANGED <<buildVars, cmpVars, fnVars>>

\* self.join(other_tree): the native call, the donor's root set, the result,
\* and other_tree dropped as the function returns.
Join(w1, w2, code) ==
    /\ w1 # w2
    /\ wrappers[w1].st = "alive"
    /\ wrappers[w2].st = "alive"
    /\ LET primary == wrappers[w1].root
           donor == wrappers[w2].root
           joined == NativeTreeJoin(roots, primary, donor, code)
           left == JoinDonorRoot(donor) IN
       /\ roots' = DropFree(joined, left)
       /\ wrappers' = [wrappers EXCEPT ![w2] = [st |-> "dropped", root |-> left]]
       /\ ret' = [op |-> "join", result |-> JoinResult(code), code |-> code,
                  primary |-> primary, donor |-> donor, given |-> NULL]
    /\ UNCHANGED <<buildVars, cmpVars, fnVars>>

\* A wrapper goes out of scope.
Drop(w) ==
    /\ wrappers[w].st = "alive"
    /\ roots' = DropFree(roots, wrappers[w].root)
    /\ wrappers' = [wrappers EXCEPT ![w].st = "dropped"]
    /\ ret' = [NoRet EXCEPT !.op = "drop"]
    /\ UNCHANGED <<buildVars, cmpVars, fnVars>>

NextJoin ==
    \/ \E isNull \in BOOLEAN : New(isNull)
    \/ \E ptr \in ResultPtrs, a \in BOOLEAN, n \in BOOLEAN : NewSasaResult(ptr, a, n)
    \/ \E s \in BOOLEAN, r \in BOOLEAN, i \in BOOLEAN : FromResult(s, r, i)
    \/ \E w1 \in WrapIds, w2 \in WrapIds, code \in StatusCodes : Join(w1, w2, code)
    \/ \E w \in WrapIds : Drop(w)

SpecJoin == InitJoin /\ [][NextJoin]_vars

(***************************************************************************)
(* Claims about the wrappers (checked under SpecJoin).                     *)
(***************************************************************************)

\* Some live wrapper holds root r.
Held(r) == \E w \in WrapIds : wrappers[w].st = "alive" /\ wrappers[w].root = r

\* The engine moved root r into another tree in a join.
Transferred(r) == roots[r].owner # 0

\* C2: no native root is released more than once; a root transferred away by
\* a join is never released through its own wrapper; and every root that was
\* handed out, was not transferred away by a join and is no longer held by a
\* wrapper has been released exactly once.
C2_ReleasedExactlyOnce ==
    \A r \in RootIds :
        /\ roots[r].frees <= 1
        /\ Transferred(r) => roots[r].frees = 0
        /\ (roots[r].st # "unalloc" /\ ~Transferred(r) /\ ~Held(r))
              => roots[r].frees = 1

\* C3: after a join that returned Err the donor is intact: the engine did
\* not take it, and it is still held by a wrapper or has been released; the
\* primary is still live and held.
C3_FailedJoinKeepsDonor ==
    (ret.op = "join" /\ ret.result = "Err") =>
        /\ ~Transferred(ret.donor)
        /\ Held(ret.donor) \/ roots[ret.donor].frees = 1
        /\ Held(ret.primary) /\ roots[ret.primary].st = "live"

\* C4: join returns Ok exactly when the native status code is Success or
\* Warning, and Err for every other code.
C4_JoinOkIffSuccessOrWarn ==
    ret.op = "join" =>
        /\ ret.result \in {"Ok", "Err"}
        /\ ret.result = "Ok" <=> ret.code \in {FREESASA_SUCCESS, FREESASA_WARN}

\* C4 witness: a join whose native call returned the warning code and that
\* returned Ok.
C4_Witness ==
    ret.op = "join" /\ ret.code = FREESASA_WARN /\ ret.result = "Ok"

(***************************************************************************)
(* The native tree: freesasa_node values in a table indexed by pointer.    *)
(* type, children, next and parent are what freesasa_node_type,            *)
(* freesasa_node_children, freesasa_node_next and freesasa_node_parent     *)
(* return; name is freesasa_node_name (classified_by for a Result node),   *)
(* number freesasa_node_residue_number, both pointers to C strings.        *)
(***************************************************************************)
NativeNode(type, children, next, parent, name, number, area, model, count) ==
    [type |-> type, children |-> children, next |-> next, parent |-> parent,
     name |-> name, number |-> number, area |-> area, model |-> model,
     count |-> count]

\* The trees the engine builds are described by their chains: the label of
\* each and the residue-number fields of its residues; every residue has
\* atomsPer atoms.  variant shifts the areas the engine computed.
MaxRes == 4

AtomNames == << <<"N">>, <<"C", "A">>, <<"C">>, <<"O">> >>

AtomName(j) == AtomNames[((j - 1) % Len(AtomNames)) + 1]

NumChains(d) == Len(d.chains)

NumRes(d, c) == Len(d.chains[c].residues)

RECURSIVE ResBefore(_, _)
ResBefore(d, c) == IF c <= 1 THEN 0 ELSE ResBefore(d, c - 1) + NumRes(d, c - 1)

TotalRes(d) == ResBefore(d, NumChains(d) + 1)

\* The name of a structure node: the labels of its chains, one after another.
RECURSIVE ChainLabels(_, _)
ChainLabels(d, c) ==
    IF c > NumChains(d) THEN <<>>
    ELSE d.chains[c].name \o ChainLabels(d, c + 1)

\* The layout of the table: root, result, structure, the chains, the
\* residues chain by chain, the atoms residue by residue.
RootPtr == 1
ResultPtr == 2
StructurePtr == 3
ChainPtr(d, c) == 3 + c
ResPtr(d, c, i) == 3 + NumChains(d) + ResBefore(d, c) + i
AtomPtr(d, c, i, j) ==
    3 + NumChains(d) + TotalRes(d) + (ResBefore(d, c) + i - 1) * d.atomsPer + j
NumNodes(d) == 3 + NumChains(d) + TotalRes(d) * (1 + d.atomsPer)

\* The areas the engine reports (total; the parts follow from it).
EngineArea(t) == NodeArea(t, t, 0, 0, t, 0)
ResArea(d, c, i) == EngineArea(10 * i + 100 * (c - 1) + d.variant)
AtomArea(d, c, i, j) == EngineArea(j + d.variant)

ChainIds(d) == 1..NumChains(d)
ResIds(d) == {ci \in ChainIds(d) \X (1..TotalRes(d)) : ci[2] <= NumRes(d, ci[1])}
AtomIds(d) == {cij \in ChainIds(d) \X (1..TotalRes(d)) \X (1..d.atomsPer) :
                  cij[2] <= NumRes(d, cij[1])}

NativeTree(d) ==
    LET top ==
          (RootPtr :> NativeNode("Root", ResultPtr, NULL, NULL,
                                 None, None, None, 0, 0))
          @@ (ResultPtr :> NativeNode("Result", StructurePtr, NULL, RootPtr,
                                 Some(<<"P">>), None, None, 0, 0))
          @@ (StructurePtr :> NativeNode("Structure",
                                 IF NumChains(d) > 0 THEN ChainPtr(d, 1) ELSE NULL,
                                 NULL, ResultPtr, Some(ChainLabels(d, 1)), None,
                                 Some(EngineArea(1000 + d.variant)), 1,
                                 NumChains(d)))
        chainPart ==
          [p \in {ChainPtr(d, c) : c \in ChainIds(d)} |->
             LET c == p - 3 IN
             NativeNode("Chain",
                 IF NumRes(d, c) > 0 THEN ResPtr(d, c, 1) ELSE NULL,
                 IF c < NumChains(d) THEN ChainPtr(d, c + 1) ELSE NULL,
                 StructurePtr, Some(d.chains[c].name), None,
                 Some(EngineArea(500 + 100 * (c - 1) + d.variant)), 0,
                 NumRes(d, c))]
        resPart ==
          [p \in {ResPtr(d, ci[1], ci[2]) : ci \in ResIds(d)} |->
             LET ci == CHOOSE x \in ResIds(d) : ResPtr(d, x[1], x[2]) = p
                 c == ci[1]
                 i == ci[2] IN
             NativeNode("Residue",
                 IF d.atomsPer > 0 THEN AtomPtr(d, c, i, 1) ELSE NULL,
                 IF i < NumRes(d, c) THEN ResPtr(d, c, i + 1) ELSE NULL,
                 ChainPtr(d, c), Some(<<"A", "L", "A">>),
                 Some(d.chains[c].residues[i]),
                 Some(ResArea(d, c, i)), 0, d.atomsPer)]
        atomPart ==
          [p \in {AtomPtr(d, x[1], x[2], x[3]) : x \in AtomIds(d)} |->
             LET x == CHOOSE y \in AtomIds(d) : AtomPtr(d, y[1], y[2], y[3]) = p
                 c == x[1]
                 i == x[2]
                 j == x[3] IN
             NativeNode("Atom", NULL,
                 IF j < d.atomsPer THEN AtomPtr(d, c, i, j + 1) ELSE NULL,
                 ResPtr(d, c, i), Some(AtomName(j)), None,
                 Some(AtomArea(d, c, i, j)), 0, 0)]
    IN top @@ chainPart @@ resPart @@ atomPart

(***************************************************************************)
(* Node: the conversion of one native node (result/node/node_.rs and       *)
(* result/node/properties.rs).  Every conversion is [ok, val]: ok is FALSE *)
(* where the code panics.                                                  *)
(***************************************************************************)
NodeTypes == {"None", "Atom", "Residue", "Chain", "Structure", "Result", "Root"}

\* utils::assert_nodetype: TRUE when it returns, FALSE when it panics.
AssertNodetype(t, p, nodetype) == p # NULL /\ t[p].type = nodetype

\* The characters that take two bytes in UTF-8 (the model has one, the
\* letter e with acute accent); every other character of the model is ASCII.
TwoByteChars == {"U+00E9"}

Utf8Len(c) == IF c \in TwoByteChars THEN 2 ELSE 1

\* name.to_bytes().len()
RECURSIVE ByteLen(_)
ByteLen(s) == IF Len(s) = 0 THEN 0 ELSE Utf8Len(Head(s)) + ByteLen(Tail(s))

\* ChainProperties::new, lines 172-185: the id read from the name of the
\* chain node (a pointer to a C string).
ChainProperties_id(name) ==
    IF ~IsSome(name) THEN Panic
    ELSE IF ByteLen(Unwrap(name)) # 1 THEN Panic
    ELSE Ok(Unwrap(name)[1])

\* NodeUid::from_chain_ptr, lines 140-155: the chain of the UID, the first
\* character of the name; the assertion is compiled in debug builds only.
NodeUid_chain(name, debug_assertions) ==
    IF Len(name) = 0
    THEN IF debug_assertions THEN Panic ELSE Ok(None)
    ELSE Ok(Some(name[1]))

\* ChainProperties::new
ChainProperties_new(t, p) ==
    IF ~AssertNodetype(t, p, "Chain") THEN Panic
    ELSE IF ~ChainProperties_id(t[p].name).ok THEN Panic
    ELSE IF ~AssertNodetype(t, t[p].parent, "Structure") THEN Panic
    ELSE Ok([n_residues |-> t[p].count,
             id |-> Unwrap(t[p].name)[1],
             structure |-> t[t[p].parent].model])

\* ResidueProperties::new, lines 98-120: the residue number field split
\* into the number's characters and the insertion code.  chars().last()
\* of an empty string is None and unwrap panics; name[..name.len() - 1]
\* cuts at a byte index and panics where that is not a character boundary.
SplitResidueNumber(field) ==
    LET name == Trim(field) IN
    IF Len(name) = 0 THEN Panic
    ELSE IF IsNumeric(name[Len(name)])
    THEN Ok([resnum |-> name, inscode |-> None])
    ELSE IF Utf8Len(name[Len(name)]) # 1 THEN Panic
    ELSE Ok([resnum |-> SubSeq(name, 1, Len(name) - 1),
             inscode |-> Some(name[Len(name)])])

\* ResidueProperties::new, lines 98-139: (resnum, inscode) of a residue
\* number field; resnum.parse().unwrap() panics where the characters are
\* not an i32.
ParseResidueNumber(field) ==
    LET number(split) ==
          IF ~split.ok THEN Panic
          ELSE LET value(resnum) ==
                     IF ~resnum.ok THEN Panic
                     ELSE Ok([resnum |-> resnum.val,
                              inscode |-> split.val.inscode])
               IN value(ParseI32(split.val.resnum))
    IN number(SplitResidueNumber(field))

\* ResidueProperties::new
ResidueProperties_new(t, p) ==
    IF ~AssertNodetype(t, p, "Residue") THEN Panic
    ELSE IF ~IsSome(t[p].number) THEN Panic
    ELSE LET fields(resnum, inscode, chain) ==
               IF ~resnum.ok THEN Panic
               ELSE IF ~IsSome(t[p].name) THEN Panic
               ELSE IF ~chain.ok THEN Panic
               ELSE Ok([n_atoms |-> t[p].count,
                        resnum |-> resnum.val,
                        inscode |-> inscode,
                        resname |-> Unwrap(t[p].name),
                        chain |-> chain.val])
             parsed(number) ==
               IF ~number.ok THEN Panic
               ELSE fields([ok |-> TRUE, val |-> number.val.resnum],
                           number.val.inscode,
                           ChainProperties_new(t, t[p].parent))
         IN parsed(ParseResidueNumber(Unwrap(t[p].number)))

\* AtomProperties::new (is_polar, is_bb, radius and pdb_line are read from
\* the engine and play no part in any identity; they are left out).
AtomProperties_new(t, p) ==
    IF ~AssertNodetype(t, p, "Atom") THEN Panic
    ELSE IF ~IsSome(t[p].name) THEN Panic
    ELSE LET fields(residue) ==
               IF ~residue.ok THEN Panic
               ELSE Ok([residue |-> residue.val, name |-> Unwrap(t[p].name)])
         IN fields(ResidueProperties_new(t, t[p].parent))

\* StructureProperties::new
StructureProperties_new(t, p) ==
    IF ~AssertNodetype(t, p, "Structure") THEN Panic
    ELSE IF ~IsSome(t[p].name) THEN Panic
    ELSE Ok([chain_uids |-> Unwrap(t[p].name), n_chains |-> t[p].count,
             model |-> t[p].model, name |-> Unwrap(t[p].name)])

\* ResultProperties::new
ResultProperties_new(t, p) ==
    IF ~IsSome(t[p].name) THEN Panic
    ELSE Ok([classified_by |-> Unwrap(t[p].name)])

\* NodeArea::new_from_node
NodeArea_new_from_node(t, p) == Unwrap(t[p].area)

Node(properties, area, uid, nodetype, sibling_uid) ==
    [properties |-> properties, area |-> area, uid |-> uid,
     nodetype |-> nodetype, sibling_uid |-> sibling_uid]

new_atom_node(t, p) ==
    LET node(properties) ==
          IF ~properties.ok THEN Panic
          ELSE LET pr == properties.val
                   uid == AtomUID(pr.residue.chain.structure,
                                  pr.residue.chain.id, pr.residue.resnum,
                                  pr.residue.inscode, pr.name)
                   sibling == t[p].next
                   sibling_uid ==
                      IF sibling = NULL THEN None
                      ELSE Some(AtomUID(pr.residue.chain.structure,
                                        pr.residue.chain.id, pr.residue.resnum,
                                        pr.residue.inscode,
                                        Unwrap(t[sibling].name)))
               IN Ok(Node(Some(pr), Some(NodeArea_new_from_node(t, p)),
                          Some(uid), "Atom", sibling_uid))
    IN node(AtomProperties_new(t, p))

new_residue_node(t, p) ==
    LET sibling == t[p].next
        node(properties, sp) ==
          IF ~properties.ok THEN Panic
          ELSE IF sibling # NULL /\ ~sp.ok THEN Panic
          ELSE LET pr == properties.val IN
               Ok(Node(Some(pr), Some(NodeArea_new_from_node(t, p)),
                       Some(ResidueUID(pr.chain.structure, pr.chain.id,
                                       pr.resnum, pr.inscode)),
                       "Residue",
                       IF sibling = NULL THEN None
                       ELSE Some(ResidueUID(pr.chain.structure,
                                            sp.val.chain.id, sp.val.resnum,
                                            sp.val.inscode))))
    IN node(ResidueProperties_new(t, p),
            IF sibling = NULL THEN Panic ELSE ResidueProperties_new(t, sibling))

new_chain_node(t, p) ==
    LET sibling == t[p].next
        node(properties, sp) ==
          IF ~properties.ok THEN Panic
          ELSE IF sibling # NULL /\ ~sp.ok THEN Panic
          ELSE LET pr == properties.val IN
               Ok(Node(Some(pr), Some(NodeArea_new_from_node(t, p)),
                       Some(ChainUID(pr.structure, pr.id)), "Chain",
                       IF sibling = NULL THEN None
                       ELSE Some(ChainUID(pr.structure, sp.val.id))))
    IN node(ChainProperties_new(t, p),
            IF sibling = NULL THEN Panic ELSE ChainProperties_new(t, sibling))

new_structure_node(t, p) ==
    LET sibling == t[p].next
        node(properties, sp) ==
          IF ~properties.ok THEN Panic
          ELSE IF sibling # NULL /\ ~sp.ok THEN Panic
          ELSE LET pr == properties.val IN
               Ok(Node(Some(pr), Some(NodeArea_new_from_node(t, p)),
                       Some(StructureUID(pr.name)), "Structure",
                       IF sibling = NULL THEN None
                       ELSE Some(StructureUID(sp.val.name))))
    IN node(StructureProperties_new(t, p),
            IF sibling = NULL THEN Panic
            ELSE StructureProperties_new(t, sibling))

new_result_node(t, p) ==
    LET node(properties) ==
          IF ~properties.ok THEN Panic
          ELSE Ok(Node(Some(properties.val), None, None, "Result", None))
    IN node(ResultProperties_new(t, p))

\* Node::new_from_node
new_from_node(t, p) ==
    LET nodetype == t[p].type IN
    CASE nodetype = "Atom" -> new_atom_node(t, p)
      [] nodetype = "Residue" -> new_residue_node(t, p)
      [] nodetype = "Chain" -> new_chain_node(t, p)
      [] nodetype = "Structure" -> new_structure_node(t, p)
      [] nodetype = "Root" -> Ok(Node(None, None, None, "Root", None))
      [] nodetype = "Result" -> new_result_node(t, p)
      [] OTHER -> Panic

\* Node::set_area
set_area(self, area) == [self EXCEPT !.area = area]

\* Node::take_uid: Option::take leaves None in the node.  [self, taken].
take_uid(self) == [self |-> [self EXCEPT !.uid = None], taken |-> self.uid]

(***************************************************************************)
(* SasaTree::from_ptr                                                      *)
(***************************************************************************)

\* SasaTree::recursive_add_node, with its call stack held in a sequence:
\* a frame <<current_pointer, parent>> is one loop over a node and its next
\* siblings, parent an Option of a node index.  The head frame converts its
\* node and adds it; the loop over the children runs before the loop goes
\* on to the next sibling.  panic is set, and the traversal left, where a
\* conversion panics.
RECURSIVE recursive_add_node(_, _, _)
\* The traversal without the step to the next sibling.
recursive_add_node_NoNext(t, g, stack) ==
    IF Len(stack) = 0 \/ g.panic THEN g
    ELSE LET current_pointer == Head(stack)[1]
             parent == Head(stack)[2]
             add(converted) ==
               IF ~converted.ok THEN [g EXCEPT !.panic = TRUE]
               ELSE LET node_index == Len(g.nodes) + 1 IN
                    recursive_add_node(t,
                        [g EXCEPT
                           !.nodes = Append(@, converted.val),
                           !.edges = IF IsSome(parent)
                                     THEN Append(@, <<Unwrap(parent), node_index>>)
                                     ELSE @],
                        << <<t[current_pointer].children, Some(node_index)>> >>
                        \o Tail(stack))
         IN IF current_pointer = NULL
            THEN recursive_add_node(t, g, Tail(stack))
            ELSE add(new_from_node(t, current_pointer))

\* The traversal with every edge drawn from the first node of the graph.
recursive_add_node_EdgeFromFirst(t, g, stack) ==
    IF Len(stack) = 0 \/ g.panic THEN g
    ELSE LET current_pointer == Head(stack)[1]
             parent == Head(stack)[2]
             add(converted) ==
               IF ~converted.ok THEN [g EXCEPT !.panic = TRUE]
               ELSE LET node_index == Len(g.nodes) + 1 IN
                    recursive_add_node(t,
                        [g EXCEPT
                           !.nodes = Append(@, converted.val),
                           !.edges = IF IsSome(parent)
                                     THEN Append(@, <<1, node_index>>)
                                     ELSE @],
                        << <<t[current_pointer].children, Some(node_index)>>,
                           <<t[current_pointer].next, parent>> >>
                        \o Tail(stack))
         IN IF current_pointer = NULL
            THEN recursive_add_node(t, g, Tail(stack))
            ELSE add(new_from_node(t, current_pointer))

recursive_add_node(t, g, stack) ==
    IF Len(stack) = 0 \/ g.panic THEN g
    ELSE LET current_pointer == Head(stack)[1]
             parent == Head(stack)[2]
             add(converted) ==
               IF ~converted.ok THEN [g EXCEPT !.panic = TRUE]
               ELSE LET node_index == Len(g.nodes) + 1 IN
                    recursive_add_node(t,
                        [g EXCEPT
                           !.nodes = Append(@, converted.val),
                           !.edges = IF IsSome(parent)
                                     THEN Append(@, <<Unwrap(parent), node_index>>)
                                     ELSE @],
                        << <<t[current_pointer].children, Some(node_index)>>,
                           <<t[current_pointer].next, parent>> >>
                        \o Tail(stack))
         IN IF current_pointer = NULL
            THEN recursive_add_node(t, g, Tail(stack))
            ELSE add(new_from_node(t, current_pointer))

\* from_ptr, lines 35-43: the traversal, then freesasa_node_free where the
\* traversal returned.  [panic, graph, frees].
from_ptr(t, root) ==
    LET finish(built) ==
          IF built.panic
          THEN [panic |-> TRUE, graph |-> EmptyGraph, frees |-> 0]
          ELSE [panic |-> FALSE,
                graph |-> [nodes |-> built.nodes, edges |-> built.edges],
                frees |-> 1]
    IN finish(recursive_add_node(
                  t, [nodes |-> <<>>, edges |-> <<>>, panic |-> FALSE],
                  << <<root, None>> >>))

(***************************************************************************)
(* The families of native trees the specifications start from.             *)
(***************************************************************************)
DigitChars == <<"1", "2", "3", "4", "5", "6", "7", "8", "9">>

\* The residue-number field of residue i of the full chain.
NumField(i) == <<DigitChars[i]>>

\* The members of a set of numbers, in increasing order.
RECURSIVE SortedSeq(_)
SortedSeq(S) ==
    IF S = {} THEN <<>>
    ELSE LET m == CHOOSE x \in S : \A y \in S : x <= y
         IN <<m>> \o SortedSeq(S \ {m})

FieldsOf(nums) == [k \in 1..Len(nums) |-> NumField(nums[k])]

\* The full chain 1..MaxRes with any residues deleted.
DeletionLists == {FieldsOf(SortedSeq(S)) : S \in (SUBSET (1..MaxRes)) \ {{}}}

\* A residue number met twice in a chain; a number with and without an
\* insertion code.
SpecialLists ==
    { << <<"1">>, <<"2">>, <<"1">> >>,
      << <<"1", "0">>, <<"1", "0", "A">> >>,
      << <<"1", "0", "A">>, <<"1", "0">> >> }

GoodLists == DeletionLists \cup SpecialLists

\* Fields ResidueProperties::new cannot read.
BadLists ==
    { << <<"1">>, <<>> >>,
      << <<"x">> >>,
      << <<"1">>, <<"1", "x", "2">> >>,
      << <<" ", " ">>, <<"2">> >> }

\* A field read only after trimming, a negative number.
OddLists ==
    { << <<" ", "7", " ">>, <<"-", "5">> >>,
      << <<"+", "3">>, <<"3", "\t">> >> }

AtomCounts == {1, 2}
Variants == {0, 1}

OneChain(label, list, a, v) ==
    [chains |-> << [name |-> label, residues |-> list] >>,
     atomsPer |-> a, variant |-> v]

TwoChains(l1, l2, a, v) ==
    [chains |-> << [name |-> <<"A">>, residues |-> l1],
                   [name |-> <<"B">>, residues |-> l2] >>,
     atomsPer |-> a, variant |-> v]

\* Well-formed trees, as the engine builds them from a structure.
GoodDescs(v) ==
    {OneChain(<<"A">>, l, a, v) : l \in GoodLists, a \in AtomCounts}
    \cup {TwoChains(FieldsOf(<<1, 2>>), FieldsOf(<<1>>), 1, v),
          TwoChains(FieldsOf(<<1>>), FieldsOf(<<1, 2>>), 1, v)}

\* Trees with a residue number the conversion rejects (add_atom takes any
\* string as res_number).
BadDescs(v) ==
    {OneChain(<<"A">>, l, 1, v) : l \in BadLists}
    \cup {TwoChains(FieldsOf(<<1>>), <<<<"2", "x", "y">>>>, 1, v)}

OddDescs(v) == {OneChain(<<"A">>, l, 1, v) : l \in OddLists}

BuildDescs == UNION {GoodDescs(v) \cup BadDescs(v) \cup OddDescs(v) : v \in Variants}

(***************************************************************************)
(* SpecBuild: SasaTree::from_ptr on a native tree.                         *)
(***************************************************************************)
InitBuild ==
    /\ \E d \in BuildDescs : nat = NativeTree(d)
    /\ bst = "ready"
    /\ graph = EmptyGraph
    /\ natFrees = 0
    /\ depth = None
    /\ IdleJoin
    /\ IdleCmp
    /\ IdleFn

\* SasaTree::from_ptr(root): a panic in a conversion unwinds out of from_ptr
\* before line 40 is reached.
FromPtr ==
    /\ bst = "ready"
    /\ \E r \in {from_ptr(nat, RootPtr)} :
       /\ bst' = IF r.panic THEN "panicked" ELSE "built"
       /\ graph' = r.graph
       /\ natFrees' = natFrees + r.frees
    /\ UNCHANGED <<nat, depth, joinVars, cmpVars, fnVars>>

\* graph.node_indices().find(|n| graph.node_weight(*n).unwrap().uid() == uid):
\* the first node whose uid is the given Option, if there is one.
find_uid(g, uid) ==
    LET hits == {n \in 1..Len(g.nodes) : g.nodes[n].uid = uid}
    IN IF hits = {} THEN None
       ELSE Some(CHOOSE n \in hits : \A m \in hits : n <= m)

\* SasaTree::connect_siblings with `nodes` holding the indices 1..top: the
\* last index is popped; if its node has a sibling_uid, the first node with
\* the node's uid and the first node with the sibling's uid are looked up
\* and, if both are found, joined by an edge.
RECURSIVE connect_siblings_loop(_, _)
connect_siblings_loop(g, top) ==
    IF top = 0 THEN g
    ELSE LET popped == g.nodes[top]
             join(node, sibling) ==
               IF IsSome(node) /\ IsSome(sibling)
               THEN [g EXCEPT !.edges = Append(@, <<Unwrap(node), Unwrap(sibling)>>)]
               ELSE g
         IN IF IsSome(popped.sibling_uid)
            THEN connect_siblings_loop(
                     join(find_uid(g, popped.uid),
                          find_uid(g, popped.sibling_uid)),
                     top - 1)
            ELSE connect_siblings_loop(g, top - 1)

connect_siblings(g) == connect_siblings_loop(g, Len(g.nodes))

\* tree.connect_siblings() on a tree that from_ptr returned.
ConnectSiblings ==
    /\ bst = "built"
    /\ bst' = "connected"
    /\ graph' = connect_siblings(graph)
    /\ UNCHANGED <<nat, natFrees, depth, joinVars, cmpVars, fnVars>>

NextBuild == FromPtr \/ ConnectSiblings

SpecBuild == InitBuild /\ [][NextBuild]_vars

(***************************************************************************)
(* SpecStop: Structure::calculate_sasa_tree, which builds the owned tree   *)
(* down to a stop kind.                                                    *)
(***************************************************************************)
\* The kinds a tree is built down to.
StopKinds == {"Structure", "Chain", "Residue", "Atom"}

\* The first Structure node at or below p: the kinds above Structure are
\* skipped.
RECURSIVE FirstStructure(_, _)
FirstStructure(t, p) ==
    IF p = NULL THEN NULL
    ELSE IF t[p].type = "Structure" THEN p
    ELSE FirstStructure(t, t[p].children)

\* The descent of SasaTree::new: each node is converted; below a node of
\* the stop kind nothing is visited; after a subtree, the next sibling.
RECURSIVE build_nodes(_, _, _, _)
build_nodes(t, g, stack, stop_kind) ==
    IF Len(stack) = 0 \/ g.panic THEN g
    ELSE LET current_pointer == Head(stack)[1]
             parent == Head(stack)[2]
             below == IF t[current_pointer].type = stop_kind
                      THEN NULL
                      ELSE t[current_pointer].children
             add(converted) ==
               IF ~converted.ok THEN [g EXCEPT !.panic = TRUE]
               ELSE LET node_index == Len(g.nodes) + 1 IN
                    build_nodes(t,
                        [g EXCEPT
                           !.nodes = Append(@, converted.val),
                           !.edges = IF IsSome(parent)
                                     THEN Append(@, <<Unwrap(parent), node_index>>)
                                     ELSE @],
                        << <<below, Some(node_index)>>,
                           <<t[current_pointer].next, parent>> >>
                        \o Tail(stack),
                        stop_kind)
         IN IF current_pointer = NULL
            THEN build_nodes(t, g, Tail(stack), stop_kind)
            ELSE add(new_from_node(t, current_pointer))

\* SasaTree::new(root, depth): the tree built down to the stop kind; the
\* native tree is released.  [failed, graph, frees].
SasaTree_new(t, root, stop_kind) ==
    LET finish(built) ==
          IF built.panic
          THEN [failed |-> TRUE, graph |-> EmptyGraph, frees |-> 1]
          ELSE [failed |-> FALSE,
                graph |-> [nodes |-> built.nodes, edges |-> built.edges],
                frees |-> 1]
    IN finish(build_nodes(
                  t, [nodes |-> <<>>, edges |-> <<>>, panic |-> FALSE],
                  << <<FirstStructure(t, root), None>> >>, stop_kind))

\* calculate_sasa_tree with the stop kind replaced by Atom.
calculate_sasa_tree_ToAtoms(t, root, stop_kind) ==
    IF root = NULL
    THEN [failed |-> TRUE, graph |-> EmptyGraph, frees |-> 0]
    ELSE SasaTree_new(t, root, "Atom")

\* Structure::calculate_sasa_tree, lines 372-377: Err on a null root, else
\* the tree of SasaTree::new(root, depth).
calculate_sasa_tree(t, root, stop_kind) ==
    IF root = NULL
    THEN [failed |-> TRUE, graph |-> EmptyGraph, frees |-> 0]
    ELSE SasaTree_new(t, root, stop_kind)

InitStop ==
    /\ \E d \in BuildDescs : nat = NativeTree(d)
    /\ bst = "ready"
    /\ graph = EmptyGraph
    /\ natFrees = 0
    /\ depth \in {Some(k) : k \in StopKinds}
    /\ IdleJoin
    /\ IdleCmp
    /\ IdleFn

\* Structure::calculate_sasa_tree(depth)
CalculateSasaTree ==
    /\ bst = "ready"
    /\ IsSome(depth)
    /\ \E r \in {calculate_sasa_tree(nat, RootPtr, Unwrap(depth))} :
       /\ bst' = IF r.failed THEN "failed" ELSE "built"
       /\ graph' = r.graph
       /\ natFrees' = natFrees + r.frees
    /\ UNCHANGED <<nat, depth, joinVars, cmpVars, fnVars>>

NextStop == CalculateSasaTree

SpecStop == InitStop /\ [][NextStop]_vars

\* C1: when from_ptr is left, by returning the tree or by a panic raised
\* while a node is converted, the native tree has been released exactly
\* once (and it is never released before the traversal is over).
C1_ReleasedOnEveryExit ==
    /\ bst = "ready" => natFrees = 0
    /\ bst \in {"built", "panicked"} => natFrees = 1

\* C12: a build never panics, whatever the residue number fields and the
\* chain labels of the native tree: malformed input gives an error value.
C12_BuildNeverPanics == bst # "panicked"

(***************************************************************************)
(* SasaTree::compare_residues and SasaTree::get_nodes.                     *)
(***************************************************************************)

\* graph.node_indices().filter(nodetype): the indices of the nodes of a
\* type, in increasing order.
IndicesOfType(g, nodetype) ==
    LET isType(n) == g.nodes[n].nodetype = nodetype
    IN SelectSeq([n \in 1..Len(g.nodes) |-> n], isType)

\* A HashMap keyed by UID, as the sequence of its entries <<key, value>>.
\* insert replaces the value of an equal key; get returns an Option.
MapInsert(m, k, v) ==
    IF \E i \in 1..Len(m) : UidEq(m[i][1], k)
    THEN [i \in 1..Len(m) |-> IF UidEq(m[i][1], k) THEN <<m[i][1], v>> ELSE m[i]]
    ELSE Append(m, <<k, v>>)

MapGet(m, k) ==
    IF \E i \in 1..Len(m) : UidEq(m[i][1], k)
    THEN Some(m[CHOOSE i \in 1..Len(m) : UidEq(m[i][1], k)][2])
    ELSE None

\* Lines 133-145: the map `nodes` from the UID of each Residue node of self
\* to that node (its index in self.graph), collected in index order.
RECURSIVE CollectNodes(_, _, _)
CollectNodes(g, idxs, m) ==
    IF Len(idxs) = 0 THEN Ok(m)
    ELSE IF ~IsSome(g.nodes[Head(idxs)].uid) THEN Panic
    ELSE CollectNodes(g, Tail(idxs),
                      MapInsert(m, Unwrap(g.nodes[Head(idxs)].uid), Head(idxs)))

NodesMap(g) == CollectNodes(g, IndicesOfType(g, "Residue"), <<>>)

\* Lines 147-157: for each index n of a Residue node of subtree, the pair
\* (self.graph.node_weight(n).unwrap().uid().unwrap(), n).  The index is
\* looked up in self.graph: the first unwrap panics where self has no node
\* n, the second where that node has no UID.
RECURSIVE CollectSubtreeNodes(_, _, _)
CollectSubtreeNodes(self, idxs, acc) ==
    IF Len(idxs) = 0 THEN Ok(acc)
    ELSE IF Head(idxs) > Len(self.nodes) THEN Panic
    ELSE IF ~IsSome(self.nodes[Head(idxs)].uid) THEN Panic
    ELSE CollectSubtreeNodes(self, Tail(idxs),
             Append(acc, <<Unwrap(self.nodes[Head(idxs)].uid), Head(idxs)>>))

SubtreeNodes(self, subtree) ==
    CollectSubtreeNodes(self, IndicesOfType(subtree, "Residue"), <<>>)

\* The functions a caller passes: op and predicate.
Ops == {"b_minus_a", "a_plus_b"}

ApplyOp(op, a, b) ==
    CASE op = "b_minus_a" -> AreaSub(b, a)
      [] op = "a_plus_b" -> AreaAdd(a, b)

Abs(x) == IF x < 0 THEN 0 - x ELSE x

Epsilons == {1, 25}

Predicates ==
    {[kind |-> "always", eps |-> 0], [kind |-> "total_gt_0", eps |-> 0]}
    \cup {[kind |-> "abs_total_gt", eps |-> e] : e \in Epsilons}

PredHolds(pred, area) ==
    CASE pred.kind = "always" -> TRUE
      [] pred.kind = "total_gt_0" -> area.total > 0
      [] pred.kind = "abs_total_gt" -> Abs(area.total) > pred.eps

Emit_InPlace(g, n, area) ==
    [graph |-> [g EXCEPT !.nodes[n] = set_area(@, Some(area))],
     node |-> set_area(g.nodes[n], Some(area))]

\* Lines 179-181: node.clone(), set_area on the clone; the graph the node
\* was cloned from is as it was.
Emit(g, n, area) ==
    [graph |-> g, node |-> set_area(g.nodes[n], Some(area))]

\* Lines 161-192: the loop over subtree_nodes.  acc is [self, result,
\* applied, panic]: the graph of self, the vector result, and the pairs
\* <<index in self, index in subtree>> of the nodes op was applied to.
RECURSIVE CompareLoop(_, _, _, _, _, _)
CompareLoop(subtree, nodes, pending, op, predicate, acc) ==
    IF Len(pending) = 0 \/ acc.panic THEN acc
    ELSE LET uid == Head(pending)[1]
             nidx == Head(pending)[2]
             push(emitted, n) ==
               [acc EXCEPT !.self = emitted.graph,
                           !.result = Append(@, emitted.node),
                           !.applied = Append(@, <<n, nidx>>)]
             apply(n, area) ==
               IF PredHolds(predicate, area)
               THEN push(Emit(acc.self, n, area), n)
               ELSE [acc EXCEPT !.applied = Append(@, <<n, nidx>>)]
             found(node) ==
               IF ~IsSome(node) THEN acc
               ELSE IF ~IsSome(acc.self.nodes[Unwrap(node)].area)
                       \/ ~IsSome(subtree.nodes[nidx].area)
               THEN [acc EXCEPT !.panic = TRUE]
               ELSE apply(Unwrap(node),
                          ApplyOp(op,
                                  Unwrap(acc.self.nodes[Unwrap(node)].area),
                                  Unwrap(subtree.nodes[nidx].area)))
             step(next) ==
               CompareLoop(subtree, nodes, Tail(pending), op, predicate, next)
         IN step(found(MapGet(nodes, uid)))

\* compare_residues: [panic, self, result, applied].
compare_residues(self, subtree, op, predicate) ==
    LET start == [self |-> self, result |-> <<>>, applied |-> <<>>,
                  panic |-> FALSE]
        loop(nodes, subtree_nodes) ==
          IF ~nodes.ok \/ ~subtree_nodes.ok
          THEN [start EXCEPT !.panic = TRUE]
          ELSE CompareLoop(subtree, nodes.val, subtree_nodes.val, op,
                           predicate, start)
    IN loop(NodesMap(self), SubtreeNodes(self, subtree))

\* get_nodes: the clones of the nodes of a type, in index order.
get_nodes(g, nodetype) ==
    [k \in 1..Len(IndicesOfType(g, nodetype)) |->
        g.nodes[IndicesOfType(g, nodetype)[k]]]

(***************************************************************************)
(* SpecCmp: compare_residues and get_nodes on two owned trees.             *)
(***************************************************************************)

\* The trees compared: one chain with each list of residues, a residue of
\* one atom or of two; two chains.
CmpDescs(v) ==
    {OneChain(<<"A">>, l, 1, v) : l \in GoodLists}
    \cup {OneChain(<<"A">>, FieldsOf(l), 2, v) : l \in {<<1, 2>>, <<1, 2, 3>>}}
    \cup {TwoChains(FieldsOf(<<1, 2>>), FieldsOf(<<1>>), 1, v),
          TwoChains(FieldsOf(<<1>>), FieldsOf(<<1, 2>>), 1, v)}

\* No call is in progress and no result is held.
NoCall == [call |-> "none"]

TreeNames == {"A", "B"}

Tree(name) == IF name = "A" THEN treeA ELSE treeB

\* (self, subtree) of a call of compare_residues.
CallPairs == {<<"A", "B">>, <<"B", "A">>, <<"A", "A">>}

\* Both trees were built by from_ptr from trees the engine calculated; the
\* areas of the second differ from those of the first.
InitCmp ==
    /\ \E dA \in CmpDescs(0), dB \in CmpDescs(1) :
          /\ treeA = from_ptr(NativeTree(dA), RootPtr).graph
          /\ treeB = from_ptr(NativeTree(dB), RootPtr).graph
    /\ cmpOut = NoCall
    /\ IdleJoin
    /\ IdleBuild
    /\ IdleFn

\* self.compare_residues(subtree, op, predicate)
Compare(self, subtree, op, predicate) ==
    /\ cmpOut = NoCall
    /\ \E r \in {compare_residues(Tree(self), Tree(subtree), op, predicate)} :
          /\ treeA' = IF self = "A" THEN r.self ELSE treeA
          /\ treeB' = IF self = "B" THEN r.self ELSE treeB
          /\ cmpOut' = [call |-> "compare_residues", self |-> self,
                        subtree |-> subtree, op |-> op,
                        predicate |-> predicate,
                        status |-> IF r.panic THEN "panic" ELSE "ok",
                        result |-> IF r.panic THEN <<>> ELSE r.result,
                        applied |-> r.applied]
    /\ UNCHANGED <<joinVars, buildVars, fnVars>>

\* self.get_nodes(nodetype)
GetNodes(self, nodetype) ==
    /\ cmpOut = NoCall
    /\ cmpOut' = [call |-> "get_nodes", self |-> self, nodetype |-> nodetype,
                  status |-> "ok", result |-> get_nodes(Tree(self), nodetype)]
    /\ UNCHANGED <<treeA, treeB, joinVars, buildVars, fnVars>>

\* The caller is done with the vector a call returned.
DropResult ==
    /\ cmpOut # NoCall
    /\ cmpOut' = NoCall
    /\ UNCHANGED <<treeA, treeB, joinVars, buildVars, fnVars>>

NextCmp ==
    \/ \E pair \in CallPairs, op \in Ops, predicate \in Predicates :
          Compare(pair[1], pair[2], op, predicate)
    \/ \E self \in TreeNames, nodetype \in NodeTypes : GetNodes(self, nodetype)
    \/ DropResult

SpecCmp == InitCmp /\ [][NextCmp]_vars

(***************************************************************************)
(* Properties of compare_residues and get_nodes.                           *)
(***************************************************************************)
Compared == cmpOut.call = "compare_residues"

CmpSelf == Tree(cmpOut.self)
CmpSub == Tree(cmpOut.subtree)

ResidueSet(g) == {n \in 1..Len(g.nodes) : g.nodes[n].nodetype = "Residue"}

\* The residues of a tree in node order: <<chain, number, insertion code>>.
ResidueKeys(g) ==
    [k \in 1..Len(IndicesOfType(g, "Residue")) |->
        LET pr == Unwrap(g.nodes[IndicesOfType(g, "Residue")[k]].properties)
        IN <<pr.chain.id, pr.resnum, pr.inscode>>]

\* The pairs of residues of self and subtree that have the same UID.
MatchedPairs ==
    {p \in ResidueSet(CmpSelf) \X ResidueSet(CmpSub) :
        CmpSelf.nodes[p[1]].uid = CmpSub.nodes[p[2]].uid}

OpOfPair(p) ==
    ApplyOp(cmpOut.op, Unwrap(CmpSelf.nodes[p[1]].area),
            Unwrap(CmpSub.nodes[p[2]].area))

\* C5: op is applied only to a residue of self and a residue of subtree
\* that have the same UID; for self with residues 1,2,3,4 and subtree with
\* residues 1,3,4 of one chain the pairs are (1,1), (3,3), (4,4).
C5_MatchedByIdentity ==
    Compared =>
        /\ \A k \in 1..Len(cmpOut.applied) :
              <<cmpOut.applied[k][1], cmpOut.applied[k][2]>> \in MatchedPairs
        /\ (/\ ResidueKeys(CmpSelf) = << <<"A", 1, None>>, <<"A", 2, None>>,
                                         <<"A", 3, None>>, <<"A", 4, None>> >>
            /\ ResidueKeys(CmpSub) = << <<"A", 1, None>>, <<"A", 3, None>>,
                                        <<"A", 4, None>> >>)
           => /\ cmpOut.status = "ok"
              /\ {<<Unwrap(CmpSelf.nodes[cmpOut.applied[k][1]].properties).resnum,
                    Unwrap(CmpSub.nodes[cmpOut.applied[k][2]].properties).resnum>> :
                     k \in 1..Len(cmpOut.applied)}
                 = {<<1, 1>>, <<3, 3>>, <<4, 4>>}

\* C7: compare_residues always completes normally, and every node of the
\* result is a residue that both trees hold: a residue without a
\* counterpart of the same UID gives no result node.
C7_UnmatchedSkipped ==
    Compared =>
        /\ cmpOut.status = "ok"
        /\ \A k \in 1..Len(cmpOut.result) :
              \E p \in MatchedPairs :
                 cmpOut.result[k].uid = CmpSelf.nodes[p[1]].uid

\* C8: the result holds, for each pair of residues with the same UID whose
\* op(area_a, area_b) satisfies the predicate, a Residue node with that UID
\* and that area, and nothing else.
C8_EmittedIffPredicate ==
    (Compared /\ cmpOut.status = "ok") =>
        /\ \A k \in 1..Len(cmpOut.result) :
              /\ cmpOut.result[k].nodetype = "Residue"
              /\ \E p \in MatchedPairs :
                    /\ cmpOut.result[k].uid = CmpSelf.nodes[p[1]].uid
                    /\ cmpOut.result[k].area = Some(OpOfPair(p))
                    /\ PredHolds(cmpOut.predicate, OpOfPair(p))
        /\ \A p \in MatchedPairs :
              PredHolds(cmpOut.predicate, OpOfPair(p)) =>
                 \E k \in 1..Len(cmpOut.result) :
                    /\ cmpOut.result[k].uid = CmpSelf.nodes[p[1]].uid
                    /\ cmpOut.result[k].area = Some(OpOfPair(p))

SelfCompared ==
    /\ Compared
    /\ cmpOut.self = cmpOut.subtree
    /\ cmpOut.op = "b_minus_a"
    /\ cmpOut.predicate.kind = "abs_total_gt"
    /\ cmpOut.predicate.eps > 0

\* C6: a tree compared with itself, with op b - a and the predicate
\* |total| > eps, eps > 0, gives an empty vector, for every tree.
C6_SelfCompareEmpty ==
    SelfCompared => (cmpOut.status = "ok" /\ cmpOut.result = <<>>)

\* C9: a call of compare_residues or of get_nodes leaves both trees as they
\* were: the nodes (kind, UID, area, properties) and the edges.
C9_ReadsLeaveTreesUnchanged ==
    [][cmpOut'.call \in {"compare_residues", "get_nodes"}
          => (treeA' = treeA /\ treeB' = treeB)]_vars

\* compare_residues returned a node whose area is not the area of the node
\* of self it was cloned from.
C9_Witness ==
    /\ Compared
    /\ cmpOut.status = "ok"
    /\ \E k \in 1..Len(cmpOut.result), n \in ResidueSet(CmpSelf) :
          /\ cmpOut.result[k].uid = CmpSelf.nodes[n].uid
          /\ cmpOut.result[k].area # CmpSelf.nodes[n].area

\* Two residues of a chain with the same number, one without insertion
\* code and one with the insertion code A.
InscodePair(g, x, y) ==
    /\ x \in ResidueSet(g) /\ y \in ResidueSet(g)
    /\ Unwrap(g.nodes[x].properties).chain.id = Unwrap(g.nodes[y].properties).chain.id
    /\ Unwrap(g.nodes[x].properties).resnum = Unwrap(g.nodes[y].properties).resnum
    /\ Unwrap(g.nodes[x].properties).inscode = None
    /\ Unwrap(g.nodes[y].properties).inscode = Some("A")

\* What the map compare_residues builds from g holds under the UID of node n.
KeyOf(g, n) == MapGet(NodesMap(g).val, Unwrap(g.nodes[n].uid))

\* C10: the UIDs of two residues of a chain with the same number, one
\* without insertion code and one with insertion code A, are unequal, and
\* in the map compare_residues builds each is a key of its own, mapped to
\* its own node.
C10_InscodeDistinctKeys ==
    Compared =>
        \A x, y \in ResidueSet(CmpSelf) :
           InscodePair(CmpSelf, x, y) =>
              /\ ~UidEq(Unwrap(CmpSelf.nodes[x].uid), Unwrap(CmpSelf.nodes[y].uid))
              /\ NodesMap(CmpSelf).ok
              /\ KeyOf(CmpSelf, x) # KeyOf(CmpSelf, y)
              /\ IsSome(KeyOf(CmpSelf, x)) /\ IsSome(KeyOf(CmpSelf, y))
              /\ CmpSelf.nodes[Unwrap(KeyOf(CmpSelf, x))].uid = CmpSelf.nodes[x].uid
              /\ CmpSelf.nodes[Unwrap(KeyOf(CmpSelf, y))].uid = CmpSelf.nodes[y].uid

\* A tree holding residues 10 and 10A was compared with itself and both
\* came out, each under its own UID.
C10_Witness ==
    /\ Compared
    /\ cmpOut.status = "ok"
    /\ cmpOut.self = cmpOut.subtree
    /\ \E x, y \in ResidueSet(CmpSelf) :
          /\ InscodePair(CmpSelf, x, y)
          /\ \E j, k \in 1..Len(cmpOut.result) :
                /\ cmpOut.result[j].uid = CmpSelf.nodes[x].uid
                /\ cmpOut.result[k].uid = CmpSelf.nodes[y].uid
                /\ j # k

(***************************************************************************)
(* SpecFn: the parsing and identity functions, each applied on its own to  *)
(* an argument drawn from a family.                                        *)
(***************************************************************************)

\* Residue number fields: white space, a sign, digits, a letter, white
\* space, each part present or not.
FieldDigits ==
    { <<"0">>, <<"7">>, <<"1", "0">>, <<"0", "0", "7">>,
      <<"2", "1", "4", "7", "4", "8", "3", "6", "4", "7">>,
      <<"2", "1", "4", "7", "4", "8", "3", "6", "4", "8">>,
      <<"9", "9", "9", "9", "9", "9", "9", "9", "9", "9", "9">> }

FieldSigns == {<<>>, <<"-">>, <<"+">>}

Letters == {"A", "b", "U+00E9"}

FieldLetters == {<<>>} \cup {<<c>> : c \in Letters}

FieldSpace == {<<>>, <<" ">>}

NumberFields ==
    {w1 \o sg \o ds \o lt \o w2 :
        w1 \in FieldSpace, sg \in FieldSigns, ds \in FieldDigits,
        lt \in FieldLetters, w2 \in FieldSpace}

\* Fields that hold no number.
MalformedFields ==
    { <<>>, <<" ">>, <<"x">>, <<"A">>, <<"-">>, <<"-", "A">>,
      <<"1", "x", "2">>, <<"1", " ", "2">>, <<"1", "A", "B">>,
      <<"1", "-">>, <<"+", "-", "1">> }

ResidueFields == NumberFields \cup MalformedFields

\* NodeUid, the fields of the struct.
NodeUid(structure, chain, res_id, atom_name) ==
    [structure |-> structure, chain |-> chain, res_id |-> res_id,
     atom_name |-> atom_name]

\* NodeUid::new
NodeUid_new(structure, chain, res_id, atom_name) ==
    NodeUid(structure, chain, res_id, atom_name)

\* NodeUid::from_primitive: the assertions are compiled in debug builds only.
NodeUid_from_primitive(prim, debug_assertions) ==
    IF /\ debug_assertions
       /\ \/ IsSome(prim.atom_name) /\ ~(IsSome(prim.res_id) /\ IsSome(prim.chain))
          \/ IsSome(prim.res_id) /\ ~IsSome(prim.chain)
    THEN Panic
    ELSE Ok(prim)

\* NodeUid::from_chain_ptr
NodeUid_from_chain_ptr(n, debug_assertions) ==
    LET prim(chain) ==
            IF ~chain.ok THEN Panic
            ELSE Ok(NodeUid(n.structure, chain.val, None, None))
    IN prim(NodeUid_chain(n.label, debug_assertions))

\* NodeUid::from_residue_ptr: the primitive of the parent chain with the
\* residue id parsed as in ResidueProperties::new.
NodeUid_from_residue_ptr(n, debug_assertions) ==
    LET prim(uid, parsed) ==
            IF ~uid.ok \/ ~parsed.ok THEN Panic
            ELSE Ok([uid.val EXCEPT !.res_id = Some(parsed.val)])
    IN prim(NodeUid_from_chain_ptr(n, debug_assertions),
            ParseResidueNumber(n.field))

\* NodeUid::from_atom_ptr
NodeUid_from_atom_ptr(n, debug_assertions) ==
    LET prim(uid) ==
            IF ~uid.ok THEN Panic
            ELSE Ok([uid.val EXCEPT !.atom_name = Some(n.name)])
    IN prim(NodeUid_from_residue_ptr(n, debug_assertions))

\* NodeUid::from_structure_ptr
NodeUid_from_structure_ptr(n) == Ok(NodeUid(n.structure, None, None, None))

\* NodeUid::from_ptr: Option<NodeUid>, or a panic.
NodeUid_from_ptr(n, debug_assertions) ==
    LET some(prim) ==
            IF ~prim.ok THEN Panic
            ELSE IF ~NodeUid_from_primitive(prim.val, debug_assertions).ok
            THEN Panic
            ELSE Ok(Some(NodeUid_from_primitive(prim.val, debug_assertions).val))
    IN CASE n.kind = "Structure" -> some(NodeUid_from_structure_ptr(n))
         [] n.kind = "Chain" -> some(NodeUid_from_chain_ptr(n, debug_assertions))
         [] n.kind = "Residue" -> some(NodeUid_from_residue_ptr(n, debug_assertions))
         [] n.kind = "Atom" -> some(NodeUid_from_atom_ptr(n, debug_assertions))
         [] OTHER -> Ok(None)

\* i32::to_string: the decimal digits, after a minus sign below zero.
RECURSIVE NatToString(_)
NatToString(n) ==
    LET digit(d) == <<"0", "1", "2", "3", "4", "5", "6", "7", "8", "9">>[d + 1]
    IN IF n < 10 THEN <<digit(n)>>
       ELSE Append(NatToString(n \div 10), digit(n % 10))

I32ToString(n) == IF n < 0 THEN <<"-">> \o NatToString(0 - n) ELSE NatToString(n)

\* Display for NodeUid: the structure and a colon, then the chain, the
\* residue id and the atom name as far as they are present.
NodeUid_fmt(self) ==
    LET structure == Append(I32ToString(self.structure), ":")
        chain == Append(structure, Unwrap(self.chain))
        res_id == chain \o <<":">> \o I32ToString(Unwrap(self.res_id).resnum)
                    \o (IF IsSome(Unwrap(self.res_id).inscode)
                        THEN <<Unwrap(Unwrap(self.res_id).inscode)>>
                        ELSE <<>>)
    IN IF ~IsSome(self.chain) THEN structure
       ELSE IF ~IsSome(self.res_id) THEN chain
       ELSE IF ~IsSome(self.atom_name) THEN res_id
       ELSE res_id \o <<":", Unwrap(self.atom_name)>>

\* Arguments of NodeUid::new: every combination of present and absent
\* fields.
UidNewArgs ==
    [fn : {"uid_new"}, structure : {1}, chain : {None, Some("A")},
     res_id : {None, Some([resnum |-> 1, inscode |-> None]),
               Some([resnum |-> 1, inscode |-> Some("A")]),
               Some([resnum |-> 0 - 12, inscode |-> None]),
               Some([resnum |-> 105, inscode |-> Some("b")])},
     atom_name : {None, Some("CA")}]

\* Native nodes given to NodeUid::from_ptr: the kind, the model of the
\* structure, the label of the chain, the number field of the residue and
\* the name of the atom the node lies in.
UidPtrArgs ==
    [fn : {"uid_from_ptr"},
     node : [kind : NodeTypes, structure : {1}, label : {<<"A">>, <<>>},
             field : {<<"1">>, <<"1", "A">>}, name : {"CA"}],
     debug_assertions : BOOLEAN]

\* Chain labels: of one character, of none, of two, a control character,
\* a tab, a character of two bytes.
ChainLabelInputs ==
    { <<"A">>, <<"B">>, <<"1">>, <<" ">>, <<>>, <<"A", "B">>, <<"\t">>,
      <<"U+0001">>, <<"U+00E9">> }

\* What a from_result returns, with the native calls and the C string
\* hand-overs it made: [result, init_called, into_raw, from_raw].
\* char::to_lowercase on the letters the inputs are written with.
LowerOf(c) ==
    CASE c = "A" -> "a" [] c = "C" -> "c" [] c = "H" -> "h" [] c = "I" -> "i"
      [] c = "N" -> "n" [] c = "R" -> "r" [] OTHER -> c

\* str::to_lowercase
to_lowercase(str) == [i \in 1..Len(str) |-> LowerOf(str[i])]

\* NodeType::to_str
to_str(self) ==
    CASE self = "None" -> <<"n", "o", "n", "e">>
      [] self = "Atom" -> <<"a", "t", "o", "m">>
      [] self = "Residue" -> <<"r", "e", "s", "i", "d", "u", "e">>
      [] self = "Chain" -> <<"c", "h", "a", "i", "n">>
      [] self = "Structure" -> <<"s", "t", "r", "u", "c", "t", "u", "r", "e">>
      [] self = "Result" -> <<"r", "e", "s", "u", "l", "t">>
      [] self = "Root" -> <<"r", "o", "o", "t">>

\* Err(format!("Invalid node level: {}", level))
InvalidLevel(level) == [ok |-> FALSE, val |-> level]

\* <NodeType as FromStr>::from_str
from_str(level) ==
    LET match(lower) ==
          CASE lower = <<"n", "o", "n", "e">> -> Ok("None")
            [] lower = <<"a", "t", "o", "m">> -> Ok("Atom")
            [] lower = <<"r", "e", "s", "i", "d", "u", "e">> -> Ok("Residue")
            [] lower = <<"c", "h", "a", "i", "n">> -> Ok("Chain")
            [] lower = <<"s", "t", "r", "u", "c", "t", "u", "r", "e">> -> Ok("Structure")
            [] OTHER -> InvalidLevel(level)
    IN match(to_lowercase(level))

\* Levels as a caller may write them.
LevelInputs ==
    {<<"A", "t", "o", "m">>, <<"C", "H", "A", "I", "N">>,
     <<"r", "e", "s">>, <<>>, <<"R", "o", "o", "t">>}

NodeTypeArgs ==
    [fn : {"node_type"}, kind : NodeTypes]
    \cup [fn : {"level"}, level : LevelInputs]

\* The character NUL in a &str.
NulChar == "NUL"

\* utils::str_to_c_string: CString::new fails on an interior NUL byte.
str_to_c_string(str) ==
    IF \E i \in 1..Len(str) : str[i] = NulChar THEN Panic ELSE Ok(str)

\* utils::char_to_c_char: Err for a char above 127.
char_to_c_char(char) ==
    IF char \in TwoByteChars THEN Panic ELSE Ok(char)

\* How a function that hands out C strings leaves: its result, the number
\* of into_raw calls it made and the number of CString::from_raw calls.
RawExit(result, into_raw, from_raw) ==
    [result |-> result, into_raw |-> into_raw, from_raw |-> from_raw]

\* Structure::add_atom: three strings handed out one after the other, each
\* `?` returning at once; the chain label; the native call; all three
\* strings taken back; the result by the native code.
add_atom(atom_name, res_name, res_number, chain_label, res_code) ==
    IF ~str_to_c_string(atom_name).ok THEN RawExit("Err", 0, 0)
    ELSE IF ~str_to_c_string(res_name).ok THEN RawExit("Err", 1, 0)
    ELSE IF ~str_to_c_string(res_number).ok THEN RawExit("Err", 2, 0)
    ELSE IF ~char_to_c_char(chain_label).ok THEN RawExit("Err", 3, 0)
    ELSE IF res_code = FREESASA_SUCCESS THEN RawExit("Ok", 3, 3)
    ELSE RawExit("Err", 3, 3)

\* Selection::new: the command handed out, freesasa_selection_new, the
\* return on a null selection, the command taken back.
Selection_new(command, ptr_null) ==
    IF ~str_to_c_string(command).ok THEN RawExit("Err", 0, 0)
    ELSE IF ptr_null THEN RawExit("Err", 1, 0)
    ELSE RawExit("Ok", 1, 1)

StrInputs == {<<"C", "A">>, <<"C", NulChar, "A">>}

AddAtomArgs ==
    [fn : {"add_atom"}, atom_name : StrInputs, res_name : StrInputs,
     res_number : StrInputs, chain_label : {"A"} \cup TwoByteChars,
     res_code : {FREESASA_SUCCESS, FREESASA_FAIL}]

SelectionArgs ==
    [fn : {"selection_new"}, command : StrInputs, ptr_null : BOOLEAN]

FromResultExit(result, init_called, into_raw, from_raw) ==
    [result |-> result, init_called |-> init_called,
     into_raw |-> into_raw, from_raw |-> from_raw]

\* The steps of from_result without the check of the structure pointer.
from_result_steps_NoStructureCheck(name_ok, structure_null, result_null, init_null) ==
    IF ~name_ok THEN FromResultExit("Err", FALSE, 0, 0)
    ELSE IF result_null THEN FromResultExit("Err", FALSE, 1, 0)
    ELSE IF init_null THEN FromResultExit("Err", TRUE, 1, 1)
    ELSE FromResultExit("Root", TRUE, 1, 1)

\* SasaTree::from_result lines 51-78 and SasaTreeNative::from_result lines
\* 267-294, which are the same steps: the name made a C string and handed
\* out with into_raw, the two null checks, freesasa_tree_init, the name
\* taken back, the check of the root.  "Root": a root that is not null.
from_result_steps(name_ok, structure_null, result_null, init_null) ==
    IF ~name_ok THEN FromResultExit("Err", FALSE, 0, 0)
    ELSE IF structure_null THEN FromResultExit("Err", FALSE, 1, 0)
    ELSE IF result_null THEN FromResultExit("Err", FALSE, 1, 0)
    ELSE IF init_null THEN FromResultExit("Err", TRUE, 1, 1)
    ELSE FromResultExit("Root", TRUE, 1, 1)

\* SasaTreeNative::from_result: Ok(SasaTreeNative { root }).
SasaTreeNative_from_result(name_ok, structure_null, result_null, init_null) ==
    LET wrap(r) == IF r.result = "Root" THEN [r EXCEPT !.result = "Ok"] ELSE r
    IN wrap(from_result_steps(name_ok, structure_null, result_null, init_null))

\* SasaTree::from_result: Ok(Self::from_ptr(root)), t the native tree
\* under the root freesasa_tree_init returned.
SasaTree_from_result(name_ok, structure_null, result_null, init_null, t) ==
    LET build(r, built) ==
            IF r.result # "Root" THEN r
            ELSE IF built.panic THEN [r EXCEPT !.result = "Panic"]
            ELSE [r EXCEPT !.result = "Ok"]
    IN build(from_result_steps(name_ok, structure_null, result_null, init_null),
             IF name_ok /\ ~structure_null /\ ~result_null /\ ~init_null
             THEN from_ptr(t, RootPtr)
             ELSE [panic |-> FALSE, graph |-> EmptyGraph, frees |-> 0])

\* The native trees freesasa_tree_init returns in the calls of from_result.
FromResultDescs ==
    { OneChain(<<"A">>, << <<"1">>, <<"2">> >>, 1, 0),
      OneChain(<<"A">>, << <<"x">> >>, 1, 0) }

\* Arguments of from_result: whether the name of the structure converts
\* to a C string, whether the pointers are null, what the engine returns.
FromResultArgs ==
    [fn : {"from_result"}, name_ok : BOOLEAN, structure_null : BOOLEAN,
     result_null : BOOLEAN, init_null : BOOLEAN, desc : FromResultDescs]

\* SasaTreeNative::get_raw_node: the node itself if it is of the type, else
\* the search goes on at its first child; null where there is no child.
RECURSIVE get_raw_node(_, _, _)
\* The search that returns the last node of the first-child chain where it
\* found none of the type.
get_raw_node_LastChild(t, node, node_type) ==
    IF t[node].type = node_type THEN node
    ELSE IF t[node].children = NULL THEN node
    ELSE get_raw_node(t, t[node].children, node_type)

get_raw_node(t, node, node_type) ==
    IF t[node].type = node_type THEN node
    ELSE IF t[node].children = NULL THEN NULL
    ELSE get_raw_node(t, t[node].children, node_type)

\* SasaTreeNative::get_siblings_as_vector
RECURSIVE get_siblings_as_vector(_, _)
get_siblings_as_vector(t, node) ==
    IF node = NULL THEN <<>>
    ELSE <<node>> \o get_siblings_as_vector(t, t[node].next)

\* SasaTreeNative::get_node_uid: Node::new_from_node(&node).take_uid(), Ok
\* of the UID or Err.  [panic, uid].
get_node_uid(t, node) ==
    LET taken(converted) ==
          IF ~converted.ok THEN [panic |-> TRUE, uid |-> None]
          ELSE [panic |-> FALSE, uid |-> take_uid(converted.val).taken]
    IN taken(new_from_node(t, node))

\* SasaTreeNative::get_node_area
get_node_area(t, node) == Unwrap(t[node].area).total

\* SasaTreeNative::get_siblings_as_hashmap: the siblings whose UID is a
\* residue UID, keyed by it; the others are skipped.  [panic, map], h the
\* map so far.
RECURSIVE get_siblings_as_hashmap(_, _, _)
get_siblings_as_hashmap(t, node, h) ==
    IF node = NULL THEN [panic |-> FALSE, map |-> h]
    ELSE LET step(r) ==
               IF r.panic THEN [panic |-> TRUE, map |-> h]
               ELSE IF IsSome(r.uid) /\ Unwrap(r.uid).kind = "Residue"
               THEN get_siblings_as_hashmap(
                        t, t[node].next,
                        MapInsert(h, Unwrap(r.uid),
                                  <<node, get_node_area(t, node)>>))
               ELSE get_siblings_as_hashmap(t, t[node].next, h)
         IN step(get_node_uid(t, node))

\* The predicates given to SasaTreeNative::compare_residues,
\* fn(current, other) -> bool.
NativePredicates == {"other_gt", "always", "differ"}

NativePredHolds(predicate, current, other) ==
    CASE predicate = "other_gt" -> other - current > 0
      [] predicate = "always" -> TRUE
      [] predicate = "differ" -> current # other

\* The loop of predicate_siblings over the siblings: v the pairs so far.
RECURSIVE PredicateLoop(_, _, _, _, _)
PredicateLoop(t, siblings, subtree_siblings, predicate, v) ==
    IF Len(siblings) = 0 THEN [panic |-> FALSE, pairs |-> v]
    ELSE LET sibling == Head(siblings)
             step(r) ==
               IF r.panic THEN [panic |-> TRUE, pairs |-> v]
               ELSE IF ~(IsSome(r.uid) /\ Unwrap(r.uid).kind = "Residue")
               THEN PredicateLoop(t, Tail(siblings), subtree_siblings,
                                  predicate, v)
               ELSE IF /\ IsSome(MapGet(subtree_siblings, Unwrap(r.uid)))
                       /\ NativePredHolds(
                              predicate, get_node_area(t, sibling),
                              Unwrap(MapGet(subtree_siblings, Unwrap(r.uid)))[2])
               THEN PredicateLoop(
                        t, Tail(siblings), subtree_siblings, predicate,
                        Append(v, <<sibling,
                                    Unwrap(MapGet(subtree_siblings,
                                                  Unwrap(r.uid)))[1]>>))
               ELSE PredicateLoop(t, Tail(siblings), subtree_siblings,
                                  predicate, v)
         IN step(get_node_uid(t, sibling))

\* SasaTreeNative::predicate_siblings: the pairs (node of t, node of st)
\* of equal residue UID whose areas satisfy the predicate.
predicate_siblings(t, node, st, subtree_node, predicate) ==
    LET run(h) ==
          IF h.panic THEN [panic |-> TRUE, pairs |-> <<>>]
          ELSE PredicateLoop(t, get_siblings_as_vector(t, node), h.map,
                             predicate, <<>>)
    IN run(get_siblings_as_hashmap(st, subtree_node, <<>>))

\* The first loop of compare_residues, over the chains with differences:
\* residue_diffs, keyed by the name of the chain.
RECURSIVE ResidueDiffs(_, _, _, _, _)
ResidueDiffs(t, st, chain_diffs, predicate, residue_diffs) ==
    IF Len(chain_diffs) = 0 THEN [panic |-> FALSE, map |-> residue_diffs]
    ELSE LET chain == Head(chain_diffs)
             step(r) ==
               IF r.panic THEN [panic |-> TRUE, map |-> residue_diffs]
               ELSE ResidueDiffs(
                        t, st, Tail(chain_diffs), predicate,
                        IF \E i \in 1..Len(residue_diffs) :
                               residue_diffs[i][1] = t[chain[1]].name
                        THEN [i \in 1..Len(residue_diffs) |->
                                IF residue_diffs[i][1] = t[chain[1]].name
                                THEN <<residue_diffs[i][1], r.pairs>>
                                ELSE residue_diffs[i]]
                        ELSE Append(residue_diffs, <<t[chain[1]].name, r.pairs>>))
         IN step(predicate_siblings(
                     t, get_raw_node(t, chain[1], "Residue"),
                     st, get_raw_node(st, chain[2], "Residue"), predicate))

\* The second loop of compare_residues: the residue UIDs of the pairs.
\* [panic, uids].
RECURSIVE OutputVector(_, _, _)
OutputVector(t, pairs, output_vector) ==
    IF Len(pairs) = 0 THEN [panic |-> FALSE, uids |-> output_vector]
    ELSE LET step(r) ==
               IF r.panic \/ ~IsSome(r.uid) THEN [panic |-> TRUE, uids |-> <<>>]
               ELSE IF Unwrap(r.uid).kind # "Residue"
               THEN [panic |-> TRUE, uids |-> <<>>]
               ELSE OutputVector(t, Tail(pairs),
                                 Append(output_vector, Unwrap(r.uid)))
         IN step(get_node_uid(t, Head(pairs)[1]))

\* The pairs of all the chains of residue_diffs, one after the other.
RECURSIVE AllPairs(_)
AllPairs(residue_diffs) ==
    IF Len(residue_diffs) = 0 THEN <<>>
    ELSE Head(residue_diffs)[2] \o AllPairs(Tail(residue_diffs))

\* SasaTreeNative::compare_residues(&self, subtree, predicate), t the
\* native tree under self.root and st the one under subtree.root.
native_compare_residues(t, root, st, subtree_root, predicate) ==
    LET output(residue_diffs) ==
          IF residue_diffs.panic THEN [panic |-> TRUE, uids |-> <<>>]
          ELSE OutputVector(t, AllPairs(residue_diffs.map), <<>>)
        residues(chain_diffs) ==
          IF chain_diffs.panic THEN [panic |-> TRUE, uids |-> <<>>]
          ELSE output(ResidueDiffs(t, st, chain_diffs.pairs, predicate, <<>>))
    IN residues(predicate_siblings(
                    t, get_raw_node(t, root, "Chain"),
                    st, get_raw_node(st, subtree_root, "Chain"), predicate))

\* The pairs of native trees compared: a structure, and the structure or
\* one with a residue taken out, computed on its own.
NativeCompareDescs(v) ==
    {OneChain(<<"A">>, FieldsOf(l), 1, v) : l \in {<<1, 2>>, <<1, 3>>, <<1, 2, 3>>}}
    \cup {TwoChains(FieldsOf(<<1, 2>>), FieldsOf(<<1>>), 1, v),
          TwoChains(FieldsOf(<<1>>), FieldsOf(<<1, 2>>), 1, v)}

NativeCompareArgs ==
    [fn : {"native_compare"}, self : NativeCompareDescs(0),
     subtree : NativeCompareDescs(0) \cup NativeCompareDescs(1),
     predicate : NativePredicates]

\* The native node types asked of get_raw_node.
RawNodeTypes == {"Root", "Result", "Structure", "Chain", "Residue", "Atom"}

\* Arguments of get_raw_node: a node of a native tree and a node type.
RawNodeArgs ==
    UNION { [fn : {"get_raw_node"}, desc : {d}, node : DOMAIN NativeTree(d),
             node_type : RawNodeTypes] : d \in NativeCompareDescs(0) }

\* The most atoms of a result.
MaxAtoms == 3

\* The areas of the atoms of a result.
SasaValues == {0, 3, 7}

RECURSIVE SeqsUpTo(_, _)
SeqsUpTo(S, n) ==
    IF n = 0 THEN {<<>>}
    ELSE SeqsUpTo(S, n - 1)
         \cup {Append(q, x) : q \in {r \in SeqsUpTo(S, n - 1) : Len(r) = n - 1},
                              x \in S}

\* SasaResult: n_atoms and the array sasa_ptr points to, which the
\* engine allocates with n_atoms elements.
SasaResults == {[n_atoms |-> Len(a), sasa |-> a] : a \in SeqsUpTo(SasaValues, MaxAtoms)}

\* n as usize: a negative i32 becomes a number above every index.
AsUsize(n) == IF n >= 0 THEN n ELSE I32_MAX

\* *self.sasa_ptr.add(offset): the element of the array, or, outside of
\* the array, whatever lies there (garbage), which is undefined behaviour.
ReadSasa(self, offset, garbage) ==
    IF offset >= 0 /\ offset < Len(self.sasa)
    THEN [oob |-> FALSE, val |-> self.sasa[offset + 1]]
    ELSE [oob |-> TRUE, val |-> garbage]

\* SasaResult::atom_sasa: the elements 0 .. n_atoms - 1 pushed to a Vec.
atom_sasa(self, garbage) ==
    [oob |-> \E i \in 0..(self.n_atoms - 1) : ReadSasa(self, i, garbage).oob,
     res |-> [k \in 1..self.n_atoms |-> ReadSasa(self, k - 1, garbage).val]]

\* SasaResult::get with the bound test index > n_atoms.
get_Inclusive(self, index, garbage) ==
    IF index > AsUsize(self.n_atoms)
    THEN [oob |-> FALSE, res |-> None]
    ELSE [oob |-> ReadSasa(self, index, garbage).oob,
          res |-> Some(ReadSasa(self, index, garbage).val)]

\* SasaResult::get
get(self, index, garbage) ==
    IF index >= AsUsize(self.n_atoms)
    THEN [oob |-> FALSE, res |-> None]
    ELSE [oob |-> ReadSasa(self, index, garbage).oob,
          res |-> Some(ReadSasa(self, index, garbage).val)]

\* SasaResult::iter
iter(self) == [index |-> 0]

\* Iterator::next for SasaResultIter: [index, oob, item].
next(it, self, garbage) ==
    IF it.index >= AsUsize(self.n_atoms)
    THEN [index |-> it.index, oob |-> FALSE, item |-> None]
    ELSE [index |-> it.index + 1,
          oob |-> ReadSasa(self, it.index, garbage).oob,
          item |-> Some(ReadSasa(self, it.index, garbage).val)]

ResultArgs == {[fn |-> "result", result |-> r] : r \in SasaResults}

FnArgs ==
    {[fn |-> "residue_number", field |-> f] : f \in ResidueFields}
    \cup ResultArgs \cup NativeCompareArgs \cup RawNodeArgs
    \cup FromResultArgs \cup AddAtomArgs \cup SelectionArgs \cup NodeTypeArgs
    \cup {[fn |-> "chain_label", label |-> l, debug_assertions |-> b] :
             l \in ChainLabelInputs, b \in BOOLEAN}
    \cup UidNewArgs \cup UidPtrArgs

\* No function has been applied.
NotCalled == [fn |-> "none"]

InitFn ==
    /\ arg \in FnArgs
    /\ out = NotCalled
    /\ heldNode = <<>>
    /\ IdleJoin
    /\ IdleBuild
    /\ IdleCmp

\* The residue number of ResidueProperties::new read from a field.
ParseNumber ==
    /\ arg.fn = "residue_number"
    /\ out = NotCalled
    /\ out' = [fn |-> "residue_number", res |-> ParseResidueNumber(arg.field)]
    /\ UNCHANGED <<arg, heldNode, joinVars, buildVars, cmpVars>>

\* The chain id of ChainProperties::new read from a label.
ChainIdOfProperties ==
    /\ arg.fn = "chain_label"
    /\ out = NotCalled
    /\ out' = [fn |-> "chain_properties_id",
               res |-> ChainProperties_id(Some(arg.label))]
    /\ UNCHANGED <<arg, heldNode, joinVars, buildVars, cmpVars>>

\* The chain of NodeUid::from_chain_ptr read from a label.
ChainOfUid ==
    /\ arg.fn = "chain_label"
    /\ out = NotCalled
    /\ out' = [fn |-> "uid_chain",
               res |-> NodeUid_chain(arg.label, arg.debug_assertions)]
    /\ UNCHANGED <<arg, heldNode, joinVars, buildVars, cmpVars>>

\* NodeUid::new called with the fields.
UidNew ==
    /\ arg.fn = "uid_new"
    /\ out = NotCalled
    /\ out' = [fn |-> "uid_new",
               res |-> Ok(NodeUid_new(arg.structure, arg.chain, arg.res_id,
                                      arg.atom_name))]
    /\ UNCHANGED <<arg, heldNode, joinVars, buildVars, cmpVars>>

\* NodeUid::from_ptr called with a native node.
UidFromPtr ==
    /\ arg.fn = "uid_from_ptr"
    /\ out = NotCalled
    /\ out' = [fn |-> "uid_from_ptr",
               res |-> NodeUid_from_ptr(arg.node, arg.debug_assertions)]
    /\ UNCHANGED <<arg, heldNode, joinVars, buildVars, cmpVars>>

\* uid.to_string() (the string Serialize for NodeUid writes) of a UID
\* made by NodeUid::new.
UidToString ==
    /\ arg.fn = "uid_new"
    /\ out = NotCalled
    /\ out' = [fn |-> "uid_to_string",
               res |-> NodeUid_fmt(NodeUid_new(arg.structure, arg.chain,
                                               arg.res_id, arg.atom_name))]
    /\ UNCHANGED <<arg, heldNode, joinVars, buildVars, cmpVars>>

\* tree.compare_residues(&subtree, predicate) on two SasaTreeNative
NativeCompare ==
    /\ arg.fn = "native_compare"
    /\ out = NotCalled
    /\ out' = [fn |-> "native_compare_residues",
               res |-> native_compare_residues(
                           NativeTree(arg.self), RootPtr,
                           NativeTree(arg.subtree), RootPtr, arg.predicate)]
    /\ UNCHANGED <<arg, heldNode, joinVars, buildVars, cmpVars>>

\* SasaTreeNative::get_raw_node(&node, node_type)
GetRawNode ==
    /\ arg.fn = "get_raw_node"
    /\ out = NotCalled
    /\ out' = [fn |-> "get_raw_node",
               res |-> get_raw_node(NativeTree(arg.desc), arg.node,
                                    arg.node_type)]
    /\ UNCHANGED <<arg, heldNode, joinVars, buildVars, cmpVars>>

\* result.atom_sasa()
AtomSasa ==
    /\ arg.fn = "result"
    /\ out = NotCalled
    /\ \E garbage \in SasaValues :
          out' = [fn |-> "atom_sasa", res |-> atom_sasa(arg.result, garbage)]
    /\ UNCHANGED <<arg, heldNode, joinVars, buildVars, cmpVars>>

\* result.get(index)
Get(index) ==
    /\ arg.fn = "result"
    /\ out = NotCalled
    /\ \E garbage \in SasaValues :
          out' = [fn |-> "get", index |-> index,
                  res |-> get(arg.result, index, garbage)]
    /\ UNCHANGED <<arg, heldNode, joinVars, buildVars, cmpVars>>

\* result.iter()
Iter ==
    /\ arg.fn = "result"
    /\ out = NotCalled
    /\ out' = [fn |-> "iter", it |-> iter(arg.result), oob |-> FALSE,
               items |-> <<>>, ended |-> FALSE]
    /\ UNCHANGED <<arg, heldNode, joinVars, buildVars, cmpVars>>

\* it.next() on the iterator of result.iter(): the items it yielded so far
\* are kept, and whether it has returned None.
IterNext ==
    /\ out # NotCalled
    /\ out.fn = "iter"
    /\ \E garbage \in SasaValues :
       \E r \in {next(out.it, arg.result, garbage)} :
          out' = [fn |-> "iter", it |-> [index |-> r.index],
                  oob |-> (out.oob \/ r.oob),
                  items |-> IF IsSome(r.item)
                            THEN Append(out.items, Unwrap(r.item))
                            ELSE out.items,
                  ended |-> (out.ended \/ ~IsSome(r.item))]
    /\ UNCHANGED <<arg, heldNode, joinVars, buildVars, cmpVars>>

\* SasaTree::from_result(result, structure)
TreeFromResult ==
    /\ arg.fn = "from_result"
    /\ out = NotCalled
    /\ out' = [fn |-> "tree_from_result",
               res |-> SasaTree_from_result(
                           arg.name_ok, arg.structure_null, arg.result_null,
                           arg.init_null, NativeTree(arg.desc))]
    /\ UNCHANGED <<arg, heldNode, joinVars, buildVars, cmpVars>>

\* SasaTreeNative::from_result(result, structure)
NativeFromResult ==
    /\ arg.fn = "from_result"
    /\ out = NotCalled
    /\ out' = [fn |-> "native_from_result",
               res |-> SasaTreeNative_from_result(
                           arg.name_ok, arg.structure_null, arg.result_null,
                           arg.init_null)]
    /\ UNCHANGED <<arg, heldNode, joinVars, buildVars, cmpVars>>

\* structure.add_atom(atom_name, res_name, res_number, chain_label, ..)
AddAtom ==
    /\ arg.fn = "add_atom"
    /\ out = NotCalled
    /\ out' = [fn |-> "add_atom",
               res |-> add_atom(arg.atom_name, arg.res_name, arg.res_number,
                                arg.chain_label, arg.res_code)]
    /\ UNCHANGED <<arg, heldNode, joinVars, buildVars, cmpVars>>

\* Selection::new(command, structure, result)
SelectionNew ==
    /\ arg.fn = "selection_new"
    /\ out = NotCalled
    /\ out' = [fn |-> "selection_new",
               res |-> Selection_new(arg.command, arg.ptr_null)]
    /\ UNCHANGED <<arg, heldNode, joinVars, buildVars, cmpVars>>

\* kind.to_str()
ToStr ==
    /\ arg.fn = "node_type"
    /\ out = NotCalled
    /\ out' = [fn |-> "to_str", text |-> to_str(arg.kind)]
    /\ UNCHANGED <<arg, heldNode, joinVars, buildVars, cmpVars>>

\* NodeType::from_str(level), of a level a caller wrote or of the text
\* to_str returned.
FromStr ==
    /\ \/ /\ arg.fn = "level"
          /\ out = NotCalled
          /\ out' = [fn |-> "from_str", level |-> arg.level,
                     res |-> from_str(arg.level)]
       \/ /\ out.fn = "to_str"
          /\ out' = [fn |-> "from_str", level |-> out.text,
                     res |-> from_str(out.text)]
    /\ UNCHANGED <<arg, heldNode, joinVars, buildVars, cmpVars>>

NextFn ==
    \/ AddAtom \/ SelectionNew \/ ToStr \/ FromStr
    \/ ParseNumber \/ ChainIdOfProperties \/ ChainOfUid \/ UidNew \/ UidFromPtr
    \/ TreeFromResult \/ NativeFromResult \/ UidToString
    \/ NativeCompare \/ GetRawNode
    \/ AtomSasa \/ (\E index \in 0..(MaxAtoms + 1) : Get(index)) \/ Iter \/ IterNext

SpecFn == InitFn /\ [][NextFn]_vars

(***************************************************************************)
(* Properties of the parsing functions.                                    *)
(***************************************************************************)
LastOf(s) == s[Len(s)]

\* The characters of a trimmed field without the insertion code, and those
\* without the sign.
NumberPart(name) ==
    IF LastOf(name) \in Digits THEN name ELSE SubSeq(name, 1, Len(name) - 1)

UnsignedPart(b) ==
    IF Len(b) > 0 /\ b[1] \in {"-", "+"} THEN Tail(b) ELSE b

\* An optionally signed digit string followed by at most one letter.
WellFormedField(name) ==
    /\ Len(name) > 0
    /\ LastOf(name) \in Digits \cup Letters
    /\ Len(UnsignedPart(NumberPart(name))) > 0
    /\ \A i \in 1..Len(UnsignedPart(NumberPart(name))) :
          UnsignedPart(NumberPart(name))[i] \in Digits

\* The integer a digit string of at most nine digits stands for.
RECURSIVE DigitStringValue(_)
DigitStringValue(ds) ==
    IF Len(ds) = 0 THEN 0
    ELSE 10 * DigitStringValue(SubSeq(ds, 1, Len(ds) - 1)) + DigitVal(LastOf(ds))

SignedValue(b) ==
    IF b[1] = "-" THEN 0 - DigitStringValue(UnsignedPart(b))
    ELSE DigitStringValue(UnsignedPart(b))

\* C11: for a field that is, once trimmed, an optionally signed digit
\* string followed by at most one letter, the insertion code is the last
\* character exactly when that is not a digit, and the residue number is
\* the integer the remaining characters stand for.
C11_ResidueNumberParsing ==
    (out.fn = "residue_number" /\ WellFormedField(Trim(arg.field))) =>
        /\ out.res.ok
        /\ out.res.val.inscode =
              IF LastOf(Trim(arg.field)) \in Digits THEN None
              ELSE Some(LastOf(Trim(arg.field)))
        /\ Len(UnsignedPart(NumberPart(Trim(arg.field)))) <= 9 =>
              out.res.val.resnum = SignedValue(NumberPart(Trim(arg.field)))

\* The printable characters of the model.
Printable == Digits \cup Letters \cup {"A", "B", "x", " ", "-", "+"}

\* C13: wherever a chain identity is made from a label, the label is
\* accepted exactly when it is one printable character, and rejected
\* otherwise.
C13_ChainLabelOnePrintable ==
    /\ out.fn = "chain_properties_id" =>
          (out.res.ok <=> (Len(arg.label) = 1 /\ arg.label[1] \in Printable))
    /\ out.fn = "uid_chain" =>
          ((out.res.ok /\ IsSome(out.res.val))
              <=> (Len(arg.label) = 1 /\ arg.label[1] \in Printable))

\* The nesting of a UID: no atom name without residue id and chain, no
\* residue id without chain.
Nested(u) ==
    /\ IsSome(u.atom_name) => (IsSome(u.res_id) /\ IsSome(u.chain))
    /\ IsSome(u.res_id) => IsSome(u.chain)

\* C14: every UID obtained from NodeUid::new or NodeUid::from_ptr, in a
\* debug build or a release build, is nested.
C14_UidNested ==
    /\ out.fn = "uid_new" => Nested(out.res.val)
    /\ (out.fn = "uid_from_ptr" /\ out.res.ok /\ IsSome(out.res.val)) =>
          Nested(Unwrap(out.res.val))

\* The atom nodes of the native tree.
NativeAtoms == {p \in DOMAIN nat : nat[p].type = "Atom"}

\* C15: a tree built from a native tree with N atom nodes has exactly N
\* nodes of kind Atom: get_nodes(Atom) has length N.
C15_AtomCountKept ==
    bst = "built" => Len(get_nodes(graph, "Atom")) = Cardinality(NativeAtoms)

C15_Witness ==
    /\ bst = "built"
    /\ Cardinality(NativeAtoms) >= 3
    /\ Len(get_nodes(graph, "Atom")) >= 3

\* The depth of a kind below the structure.
KindDepth(k) ==
    CASE k = "Structure" -> 1 [] k = "Chain" -> 2 [] k = "Residue" -> 3
      [] k = "Atom" -> 4 [] OTHER -> 0

\* The native nodes from the structure down to the kind k.
NativeDownTo(k) ==
    {p \in DOMAIN nat :
        KindDepth(nat[p].type) >= 1 /\ KindDepth(nat[p].type) <= KindDepth(k)}

C17_RootedAtStructure ==
    (bst = "built" /\ depth = None) =>
        /\ Len(graph.nodes) > 0
        /\ graph.nodes[1].nodetype = "Structure"
        /\ \A n \in 1..Len(graph.nodes) :
              graph.nodes[n].nodetype \notin {"Root", "Result"}

(***************************************************************************)
(* SpecNode: a Node got from a tree, and the public operations on it.      *)
(***************************************************************************)
\* The nodes of the trees SasaTree::from_ptr builds.
NodeInputs ==
    UNION { {g.nodes[n] : n \in 1..Len(g.nodes)} :
              g \in {from_ptr(NativeTree(d), RootPtr).graph : d \in GoodDescs(0)} }

\* The areas given to set_area.
AreaInputs == {None, Some(NodeArea(5, 5, 0, 0, 5, 0))}

InitNode ==
    /\ heldNode \in NodeInputs
    /\ arg = <<>>
    /\ out = NotCalled
    /\ IdleJoin
    /\ IdleBuild
    /\ IdleCmp

\* node.set_area(area)
SetArea(area) ==
    /\ heldNode' = set_area(heldNode, area)
    /\ out' = [fn |-> "set_area"]
    /\ UNCHANGED <<arg, joinVars, buildVars, cmpVars>>

\* node.take_uid()
TakeUid ==
    /\ heldNode' = take_uid(heldNode).self
    /\ out' = [fn |-> "take_uid", res |-> take_uid(heldNode).taken]
    /\ UNCHANGED <<arg, joinVars, buildVars, cmpVars>>

NextNode == (\E area \in AreaInputs : SetArea(area)) \/ TakeUid

SpecNode == InitNode /\ [][NextNode]_vars

\* C18: whatever public operations were applied to a Node, its area is
\* absent only if its kind is Root or Result, and so is its UID.
C18_AreaAndUidPresent ==
    heldNode # <<>> =>
        /\ ~IsSome(heldNode.area) => heldNode.nodetype \in {"Root", "Result"}
        /\ ~IsSome(heldNode.uid) => heldNode.nodetype \in {"Root", "Result"}

\* C20: no wrapper is made around a null pointer: SasaTreeNative::new and
\* SasaResult::new return Err on a null pointer, a live tree wrapper has a
\* root that is not null, and only join sets the root of a wrapper to null.
C20_NoWrapperAroundNull ==
    /\ [](/\ ret.op \in {"new", "result_new"} =>
                (ret.given = NULL => ret.result = "Err")
          /\ \A w \in WrapIds :
                wrappers[w].st = "alive" => wrappers[w].root # NULL)
    /\ [][\A w \in WrapIds :
            (wrappers[w].root # NULL /\ wrappers'[w].root = NULL) =>
                ret'.op = "join"]_vars

C20_Witness ==
    /\ ret.op = "result_new"
    /\ ret.given = NULL
    /\ ret.result = "Err"
    /\ \E w \in WrapIds : wrappers[w].st = "alive"
    /\ \E w \in WrapIds : wrappers[w].st = "dropped" /\ wrappers[w].root = NULL

\* C21: from_result fails, without a call of freesasa_tree_init, when the
\* structure pointer or the result pointer is null; it fails when the
\* native call returns a null root; it returns a tree only when none of the
\* three is null.
C21_FromResultNullChecks ==
    out.fn \in {"tree_from_result", "native_from_result"} =>
        /\ (arg.structure_null \/ arg.result_null) =>
              (out.res.result = "Err" /\ ~out.res.init_called)
        /\ arg.init_null => out.res.result = "Err"
        /\ out.res.result = "Ok" =>
              (~arg.structure_null /\ ~arg.result_null /\ ~arg.init_null)

C21_Witness ==
    /\ out.fn = "tree_from_result"
    /\ arg.name_ok
    /\ arg.structure_null
    /\ ~arg.result_null
    /\ out.res.result = "Err"

\* The rendering the serialization key is said to have: the chain; the
\* chain, a colon, the number and the insertion code if present; that, a
\* colon and the atom name.
KeyOfChain(u) == <<Unwrap(u.chain)>>

KeyOfResidue(u) ==
    KeyOfChain(u) \o <<":">> \o I32ToString(Unwrap(u.res_id).resnum)
        \o (IF IsSome(Unwrap(u.res_id).inscode)
            THEN <<Unwrap(Unwrap(u.res_id).inscode)>> ELSE <<>>)

KeyOfAtom(u) == KeyOfResidue(u) \o <<":", Unwrap(u.atom_name)>>

TheAtomSasa == atom_sasa(arg.result, 0).res

\* C23: for a result of n atoms, atom_sasa() has the n values of the array,
\* iter() yields these values in order and then None, get(i) is the i-th of
\* them for i < n and None otherwise, and none reads outside of the array.
C23_AccessorsAgree ==
    /\ out.fn = "atom_sasa" =>
          /\ ~out.res.oob
          /\ Len(out.res.res) = arg.result.n_atoms
          /\ out.res.res = arg.result.sasa
    /\ out.fn = "get" =>
          /\ ~out.res.oob
          /\ out.index < arg.result.n_atoms =>
                out.res.res = Some(TheAtomSasa[out.index + 1])
          /\ out.index >= arg.result.n_atoms => out.res.res = None
    /\ out.fn = "iter" =>
          /\ ~out.oob
          /\ Len(out.items) <= Len(TheAtomSasa)
          /\ out.items = SubSeq(TheAtomSasa, 1, Len(out.items))
          /\ Len(out.items) = out.it.index
          /\ out.ended => out.items = TheAtomSasa

C23_Witness ==
    /\ out.fn = "iter"
    /\ arg.result.n_atoms = MaxAtoms
    /\ out.ended
    /\ out.items = arg.result.sasa

\* The residue nodes of a native tree.
ResiduesOf(t) == {p \in DOMAIN t : t[p].type = "Residue"}

\* The residue p of the tree t and the residue q of the tree st have equal
\* UIDs, and their chains and they themselves satisfy the predicate.
Qualifies(t, p, st, q, predicate) ==
    /\ UidEq(Unwrap(get_node_uid(t, p).uid), Unwrap(get_node_uid(st, q).uid))
    /\ NativePredHolds(predicate, get_node_area(t, t[p].parent),
                       get_node_area(st, st[q].parent))
    /\ NativePredHolds(predicate, get_node_area(t, p), get_node_area(st, q))

\* C25: SasaTreeNative::compare_residues returns the UID of every residue
\* present in both trees whose chain and whose own total areas satisfy the
\* predicate; the result is not empty when there is such a residue.
C25_NativeCompareFindsResidues ==
    out.fn = "native_compare_residues" =>
        /\ ~out.res.panic
        /\ \A p \in ResiduesOf(NativeTree(arg.self)) :
           \A q \in ResiduesOf(NativeTree(arg.subtree)) :
              Qualifies(NativeTree(arg.self), p, NativeTree(arg.subtree), q,
                        arg.predicate)
              => \E k \in 1..Len(out.res.uids) :
                    UidEq(out.res.uids[k],
                          Unwrap(get_node_uid(NativeTree(arg.self), p).uid))

\* The nodes met from the node p on along the first-child links.
RECURSIVE FirstChildChain(_, _)
FirstChildChain(t, p) ==
    IF p = NULL THEN <<>> ELSE <<p>> \o FirstChildChain(t, t[p].children)

\* The positions in the first-child chain of the nodes of a type.
HitsOf(t, p, node_type) ==
    {k \in 1..Len(FirstChildChain(t, p)) :
        t[FirstChildChain(t, p)[k]].type = node_type}

\* C26: get_raw_node returns a node of the type asked for or null: the
\* first node of that type on the first-child chain that starts with the
\* node given, and null when the chain has none.
C26_GetRawNodeKind ==
    out.fn = "get_raw_node" =>
        /\ out.res # NULL => NativeTree(arg.desc)[out.res].type = arg.node_type
        /\ HitsOf(NativeTree(arg.desc), arg.node, arg.node_type) = {} =>
              out.res = NULL
        /\ \A k \in HitsOf(NativeTree(arg.desc), arg.node, arg.node_type) :
              (\A j \in HitsOf(NativeTree(arg.desc), arg.node, arg.node_type) : k <= j)
              => out.res = FirstChildChain(NativeTree(arg.desc), arg.node)[k]

C26_Witness ==
    /\ out.fn = "get_raw_node"
    /\ arg.node = RootPtr
    /\ arg.node_type = "Residue"
    /\ out.res # NULL
    /\ out.res # arg.node

(***************************************************************************)
(* SpecWalk: the loops of SasaTree::recursive_add_node and of              *)
(* SasaTreeNative::get_siblings_as_vector, one iteration a step.  What the *)
(* loops collect (the graph, the vector) has no part in their tests and is *)
(* left out; the native tree may be one whose next-sibling links form a    *)
(* cycle.                                                                  *)
(***************************************************************************)
WalkDescs == NativeCompareDescs(0)

\* The last residue of the first chain.
LastResPtr(d) == ResPtr(d, 1, NumRes(d, 1))

\* The native tree of d with the next-sibling link of the last residue of
\* the first chain set to the first residue of that chain.
CyclicSiblings(d) ==
    [NativeTree(d) EXCEPT ![LastResPtr(d)].next = ResPtr(d, 1, 1)]

WalkTrees ==
    {NativeTree(d) : d \in WalkDescs} \cup {CyclicSiblings(d) : d \in WalkDescs}

WalkArgs == {[fn |-> "walk", tree |-> t] : t \in WalkTrees}

InitWalk ==
    /\ arg \in WalkArgs
    /\ out = NotCalled
    /\ heldNode = <<>>
    /\ IdleJoin
    /\ IdleBuild
    /\ IdleCmp

\* SasaTree::from_ptr calls recursive_add_node(graph, &node, None): the
\* pointers still to be visited, the current one first.
WalkStart ==
    /\ out = NotCalled
    /\ out' = [fn |-> "recursive_add_node", stack |-> <<RootPtr>>,
               done |-> FALSE]
    /\ UNCHANGED <<arg, heldNode, joinVars, buildVars, cmpVars>>

\* One test of `while !current_node.is_null()` in recursive_add_node: on
\* null the call returns; else the node is converted (a panic ends the
\* traversal), its children are visited by the inner call and then its next
\* sibling.
WalkStep ==
    /\ out.fn = "recursive_add_node"
    /\ ~out.done
    /\ IF Len(out.stack) = 0
       THEN out' = [out EXCEPT !.done = TRUE]
       ELSE IF Head(out.stack) = NULL
       THEN out' = [out EXCEPT !.stack = Tail(@)]
       ELSE IF ~new_from_node(arg.tree, Head(out.stack)).ok
       THEN out' = [out EXCEPT !.done = TRUE]
       ELSE out' = [out EXCEPT
                      !.stack = <<arg.tree[Head(out.stack)].children,
                                  arg.tree[Head(out.stack)].next>>
                                \o Tail(out.stack)]
    /\ UNCHANGED <<arg, heldNode, joinVars, buildVars, cmpVars>>

\* get_siblings_as_vector(node, None) on a chain or a residue, as
\* predicate_siblings calls it.
SiblingsStart(node) ==
    /\ out = NotCalled
    /\ arg.tree[node].type \in {"Chain", "Residue"}
    /\ out' = [fn |-> "get_siblings_as_vector", node |-> node, done |-> FALSE]
    /\ UNCHANGED <<arg, heldNode, joinVars, buildVars, cmpVars>>

\* One test of `while !node.is_null()` in get_siblings_as_vector.
SiblingsStep ==
    /\ out.fn = "get_siblings_as_vector"
    /\ ~out.done
    /\ IF out.node = NULL
       THEN out' = [out EXCEPT !.done = TRUE]
       ELSE out' = [out EXCEPT !.node = arg.tree[out.node].next]
    /\ UNCHANGED <<arg, heldNode, joinVars, buildVars, cmpVars>>

NextWalk ==
    \/ WalkStart
    \/ WalkStep
    \/ \E node \in DOMAIN arg.tree : SiblingsStart(node)
    \/ SiblingsStep

\* A loop that has begun goes on running.
SpecWalk ==
    /\ InitWalk
    /\ [][NextWalk]_vars
    /\ WF_vars(WalkStep)
    /\ WF_vars(SiblingsStep)

\* C24: a traversal of a native tree, well-formed or not, comes to an end.
C24_TraversalTerminates ==
    (out.fn # "none") ~> (out.fn # "none" /\ out.done)

\* The native nodes reached from p by first-child and next-sibling links,
\* each before its children and its children before its next sibling.
RECURSIVE Preorder(_, _)
Preorder(t, p) ==
    IF p = NULL THEN <<>>
    ELSE <<p>> \o Preorder(t, t[p].children) \o Preorder(t, t[p].next)

\* The nodes on the next-sibling chain that starts at p.
RECURSIVE SiblingChain(_, _)
SiblingChain(t, p) ==
    IF p = NULL THEN {} ELSE {p} \cup SiblingChain(t, t[p].next)

\* The pairs <<i, j>> of positions in pre of a native parent and one of its
\* children.
ParentChildPairs(t, pre) ==
    {<<i, j>> \in (1..Len(pre)) \X (1..Len(pre)) :
        pre[j] \in SiblingChain(t, t[pre[i]].children)}

\* The edges of a graph, as a set.
EdgeSet(g) == {g.edges[e] : e \in 1..Len(g.edges)}

\* C27: the graph from_ptr builds has one node per native node reached by
\* first-child and next-sibling links, of the same kind; one edge from each
\* native parent to each of its children and no other edge; every node but
\* the top-level ones has exactly one incoming edge; and it is acyclic
\* (every edge leads from an earlier node to a later one).
C27_GraphMirrorsNativeTree ==
    (bst = "built" /\ depth = None) =>
        \A pre \in {Preorder(nat, RootPtr)} :
            /\ Len(graph.nodes) = Len(pre)
            /\ \A i \in 1..Len(pre) :
                  graph.nodes[i].nodetype = nat[pre[i]].type
            /\ EdgeSet(graph) = ParentChildPairs(nat, pre)
            /\ Len(graph.edges) = Cardinality(EdgeSet(graph))
            /\ \A j \in 1..Len(pre) :
                  Cardinality({e \in 1..Len(graph.edges) : graph.edges[e][2] = j})
                    = IF pre[j] \in SiblingChain(nat, RootPtr) THEN 0 ELSE 1
            /\ \A e \in 1..Len(graph.edges) :
                  graph.edges[e][1] < graph.edges[e][2]

C27_Witness ==
    /\ bst = "built"
    /\ depth = None
    /\ Len(graph.edges) >= 7
    /\ \E i \in 1..Len(graph.nodes) :
          /\ graph.nodes[i].nodetype = "Chain"
          /\ Cardinality({e \in 1..Len(graph.edges) : graph.edges[e][1] = i}) >= 2

\* The positions <<i, j>> in the preorder of a native node and its next
\* sibling.
SiblingPairs(t, pre) ==
    {<<i, j>> \in (1..Len(pre)) \X (1..Len(pre)) : t[pre[i]].next = pre[j]}

\* The edges g2 has after those of g1.
AddedEdges(g1, g2) == SubSeq(g2.edges, Len(g1.edges) + 1, Len(g2.edges))

\* C28: connect_siblings leaves the nodes and the edges it found as they
\* are and adds exactly one edge from every node that has a next sibling to
\* that sibling, and no other edge.
C28_ConnectSiblingsExact ==
    [][(bst = "built" /\ bst' = "connected") =>
          \A added \in {AddedEdges(graph, graph')} :
              /\ graph'.nodes = graph.nodes
              /\ SubSeq(graph'.edges, 1, Len(graph.edges)) = graph.edges
              /\ {added[e] : e \in 1..Len(added)}
                    = SiblingPairs(nat, Preorder(nat, RootPtr))
              /\ Len(added)
                    = Cardinality(SiblingPairs(nat, Preorder(nat, RootPtr)))]_vars

\* C29: on every exit of SasaTree::from_result, Structure::add_atom and
\* Selection::new, every C string handed out with into_raw has been taken
\* back with from_raw, once.
C29_RawStringsReclaimed ==
    out.fn \in {"tree_from_result", "native_from_result", "add_atom",
                "selection_new"} =>
        out.res.from_raw = out.res.into_raw

\* C30: for every NodeType variant k, NodeType::from_str(k.to_str()) is
\* Ok(k).
C30_NodeTypeRoundTrip ==
    (arg.fn = "node_type" /\ out.fn = "from_str") => out.res = Ok(arg.kind)

====
